---- MODULE Spec2Model ----
(***************************************************************************)
(* ReadyUp bot: the session / ETA state machine of src/src/domain/models.py *)
(* as driven by ReadyUpService (src/src/application/services.py) over the   *)
(* two JSON documents of src/src/infrastructure/persistence.py.             *)
(*                                                                          *)
(* Time is a count of ticks of the wall clock in the configured timezone;   *)
(* a second is TicksPerSecond ticks, so that instants between two whole     *)
(* seconds exist (datetime carries microseconds).  No daylight-saving       *)
(* transition falls inside the modelled horizon.                            *)
(*                                                                          *)
(* Spec runs the service operations one at a time (the sequential use the   *)
(* service is written for) over storage that reads and writes reliably.     *)
(* SpecTasks runs them as cooperative tasks that suspend at every storage    *)
(* read and write, which is where the event loop can switch tasks; it       *)
(* allows every switch at a storage call, also those the lock rules out.    *)
(* SpecLock follows the tasks through the asyncio.Lock of each file and     *)
(* switches only where a task is suspended.  SpecPoll, SpecBoard and        *)
(* SpecStore cover the minute poll, the leaderboard and damaged files.      *)
(* SpecFault (SpecFaultLive with fairness, SpecAlone for one task) lets the *)
(* file I/O of any storage call fail; SpecWrite takes _write_file step by   *)
(* step with a crash at any point; SpecLive keeps the clock and the two     *)
(* periodic tasks going.  SpecProto is the first prototype, src/main.py.    *)
(***************************************************************************)
EXTENDS Integers, Sequences, FiniteSets, TLC

\* ------------------------------------------------------------------ bounds
\* ticks in a second
TicksPerSecond == 2
\* how many outcomes, over all users, are folded into the stats
MaxFolds == 2
\* how many calls the tasks take up
MaxCalls == 5

\* ------------------------------------------------------- program constants
ETA_EXPIRATION_MINUTES == 60
SESSION_INACTIVITY_TIMEOUT_HOURS == 3

\* --------------------------------------------------------------- time base
SECOND == TicksPerSecond
MINUTE == 60 * SECOND
HOUR == 60 * MINUTE
DAY == 24 * HOUR
\* the clock starts at 23:00:00 of day 0, so that the horizon crosses midnight
StartNow == 23 * HOUR
\* the clock advances by whole hours until the inactivity timeout has run out
MaxHourTicks == SESSION_INACTIVITY_TIMEOUT_HOURS

\* ------------------------------------------------------------------ inputs
Users == {1, 2}
Names == {"nick"}
None == << >>
Some(x) == << x >>
\* minutes argument of /eta: absent, or an integer
MinutesInputs == {None, Some(0), Some(60)}
\* time argument of /eta after TIME_RE and time(hour, minute): absent, or <<hour, minute>>
TimeInputs == {None, Some(<<23, 0>>)}

VARIABLES
    now,          \* the wall clock, in ticks
    sessionDoc,   \* active_session.json: None when the file is absent, else Some(document)
    statsDoc,     \* user_stats.json: key -> stats object (no keys when absent)
    last,         \* the most recent call: its operation, its arguments and what it returned or raised
    outcome,      \* per user, what became of the ETA they last declared in the current session
    tasks,        \* per task, the call it is running: where it stands and its local objects
    calls,        \* how many calls the tasks have taken up
    polls,        \* check_lateness_task: when it runs next, and per user how many of its
                  \* runs have returned the ETA the user last declared
    locks,        \* per file, the asyncio.Lock of its repository: who holds it, who
                  \* waits for it, and whether the holder is inside file I/O
    disk,         \* per file, the _write_file in progress: where it stands, its data and
                  \* its temporary file; and the temporary files that crashes left
    proto         \* the first prototype (src/main.py): user_data, the pass of
                  \* check_intervals in progress, and what has been sent and scored

vars == << now, sessionDoc, statsDoc, last, outcome, tasks, calls, polls, locks,
           disk, proto >>

\* what the calls of Spec leave alone
taskVars == << tasks, calls >>
pollVars == << polls >>
lockVars == << locks >>
diskVars == << disk >>
protoVars == << proto >>

\* models.get_aware_now: the current instant in the configured timezone
\* (settings.timezone_info is taken to yield that timezone)
get_aware_now == now

\* ------------------------------------------------------------ domain model
\* UserETA(user_id, user_name, command_timestamp, arrival_timestamp): status and
\* actual_arrival_time take their defaults
UserETA(user_id, user_name, command_timestamp, arrival_timestamp) ==
    [ user_id |-> user_id,
      user_name |-> user_name,
      command_timestamp |-> command_timestamp,
      arrival_timestamp |-> arrival_timestamp,
      status |-> "EXPECTED",
      actual_arrival_time |-> None ]

\* is_late counting an arrival at the very deadline as late
is_late_inclusive(eta) ==
    IF eta.status # "ARRIVED" \/ eta.actual_arrival_time = None
    THEN FALSE
    ELSE eta.actual_arrival_time[1] >= eta.arrival_timestamp

is_late(eta) ==
    IF eta.status # "ARRIVED" \/ eta.actual_arrival_time = None
    THEN FALSE
    ELSE eta.actual_arrival_time[1] > eta.arrival_timestamp

lateness_seconds(eta) ==
    IF ~ is_late(eta)
    THEN 0
    ELSE LET lateness == eta.actual_arrival_time[1] - eta.arrival_timestamp
             whole == lateness \div SECOND
         IN  IF whole > 0 THEN whole ELSE 0

\* should_expire expiring an ETA at the very threshold
should_expire_inclusive(eta) ==
    IF eta.status # "EXPECTED"
    THEN FALSE
    ELSE get_aware_now >= eta.arrival_timestamp + ETA_EXPIRATION_MINUTES * MINUTE

\* should_expire holding for an hour past the threshold only
should_expire_for_an_hour(eta) ==
    IF eta.status # "EXPECTED"
    THEN FALSE
    ELSE LET expiration_threshold == ETA_EXPIRATION_MINUTES * MINUTE
         IN  /\ get_aware_now > eta.arrival_timestamp + expiration_threshold
             /\ get_aware_now <= eta.arrival_timestamp + expiration_threshold + HOUR

\* an ETA that never expires
should_expire_never(eta) == FALSE

should_expire(eta) ==
    IF eta.status # "EXPECTED"
    THEN FALSE
    ELSE LET expiration_threshold == ETA_EXPIRATION_MINUTES * MINUTE
         IN  get_aware_now > eta.arrival_timestamp + expiration_threshold

\* Session(): a fresh session, both instants defaulting to get_aware_now()
NewSession ==
    [ users |-> << >>,
      start_time |-> get_aware_now,
      last_activity_time |-> get_aware_now ]

update_activity_time(session) ==
    [session EXCEPT !.last_activity_time = get_aware_now]

\* now.replace(hour=h, minute=m, second=0, microsecond=0)
ReplaceTime(t, hm) == (t \div DAY) * DAY + hm[1] * HOUR + hm[2] * MINUTE

\* a d[k] = v that, when it overwrites, keeps no other key
Put_alone(d, k, v) ==
    IF k \in DOMAIN d
    THEN [x \in {k} |-> v]
    ELSE [x \in (DOMAIN d) \cup {k} |-> IF x = k THEN v ELSE d[x]]
\* d[k] = v on a dict
Put(d, k, v) == [x \in (DOMAIN d) \cup {k} |-> IF x = k THEN v ELSE d[x]]
\* a del d[k] that was left out
Del_left_out(d, k) == d
\* del d[k]
Del(d, k) == [x \in (DOMAIN d) \ {k} |-> d[x]]

\* set_eta rolling a time of day to tomorrow also when it equals the current instant
set_eta_rolls_on_equal(session, user_id, user_name, eta_minutes, eta_time) ==
    LET t == get_aware_now
        today == ReplaceTime(t, eta_time[1])
        arrival_ts == IF eta_minutes # None
                      THEN t + eta_minutes[1] * MINUTE
                      ELSE IF today <= t THEN today + DAY ELSE today
        eta == UserETA(user_id, user_name, t, arrival_ts)
    IN  IF eta_minutes = None /\ eta_time = None
        THEN [ err |-> "ValueError", session |-> session, eta |-> None ]
        ELSE [ err |-> "none",
               session |-> [session EXCEPT !.users = Put(@, user_id, eta),
                                           !.last_activity_time = t],
               eta |-> Some(eta) ]

\* Session.set_eta: the raised error, or the mutated session and the new UserETA
set_eta(session, user_id, user_name, eta_minutes, eta_time) ==
    LET t == get_aware_now
        today == ReplaceTime(t, eta_time[1])
    IN  IF eta_minutes # None
        THEN LET eta == UserETA(user_id, user_name, t, t + eta_minutes[1] * MINUTE)
             IN  [ err |-> "none",
                   session |-> update_activity_time(
                                   [session EXCEPT !.users = Put(@, user_id, eta)]),
                   eta |-> Some(eta) ]
        ELSE IF eta_time # None
        THEN LET arrival_ts == IF today < t THEN today + DAY ELSE today
                 eta == UserETA(user_id, user_name, t, arrival_ts)
             IN  [ err |-> "none",
                   session |-> update_activity_time(
                                   [session EXCEPT !.users = Put(@, user_id, eta)]),
                   eta |-> Some(eta) ]
        ELSE [ err |-> "ValueError", session |-> session, eta |-> None ]

\* mark_arrived taking a user without an entry for a user in the wrong state
mark_arrived_absent_invalid(session, user_id) ==
    IF user_id \notin DOMAIN session.users
    THEN [ err |-> "UserStateError", session |-> session, eta |-> None ]
    ELSE IF session.users[user_id].status # "EXPECTED"
    THEN [ err |-> "UserStateError", session |-> session, eta |-> None ]
    ELSE LET arrived == [session.users[user_id] EXCEPT
                            !.status = "ARRIVED",
                            !.actual_arrival_time = Some(get_aware_now)]
         IN  [ err |-> "none",
               session |-> update_activity_time(
                               [session EXCEPT !.users[user_id] = arrived]),
               eta |-> Some(arrived) ]

\* Session.mark_arrived: the raised error, or the mutated session and the UserETA
mark_arrived(session, user_id) ==
    IF user_id \notin DOMAIN session.users
    THEN [ err |-> "KeyError", session |-> session, eta |-> None ]
    ELSE IF session.users[user_id].status # "EXPECTED"
    THEN [ err |-> "UserStateError", session |-> session, eta |-> None ]
    ELSE LET arrived == [session.users[user_id] EXCEPT
                            !.status = "ARRIVED",
                            !.actual_arrival_time = Some(get_aware_now)]
         IN  [ err |-> "none",
               session |-> update_activity_time(
                               [session EXCEPT !.users[user_id] = arrived]),
               eta |-> Some(arrived) ]

is_inactive(session) ==
    LET inactivity_threshold == SESSION_INACTIVITY_TIMEOUT_HOURS * HOUR
    IN  get_aware_now > session.last_activity_time + inactivity_threshold

\* UserStats(user_id, user_name): all counters default to 0
NewUserStats(user_id, user_name) ==
    [ user_id |-> user_id,
      user_name |-> user_name,
      total_sessions |-> 0,
      on_time_arrivals |-> 0,
      total_lateness_seconds |-> 0,
      late_arrivals |-> 0,
      no_shows |-> 0 ]

record_arrival(stats, user_eta) ==
    IF user_eta.status # "ARRIVED"
    THEN stats
    ELSE IF is_late(user_eta)
    THEN [stats EXCEPT !.total_sessions = @ + 1,
                       !.late_arrivals = @ + 1,
                       !.total_lateness_seconds = @ + lateness_seconds(user_eta)]
    ELSE [stats EXCEPT !.total_sessions = @ + 1,
                       !.on_time_arrivals = @ + 1]

\* record_no_show without the total_sessions increment
record_no_show_uncounted(stats) ==
    [stats EXCEPT !.no_shows = @ + 1]

record_no_show(stats) ==
    [stats EXCEPT !.total_sessions = @ + 1, !.no_shows = @ + 1]

\* ------------------------------------------------------------- persistence
\* CustomJSONEncoder.default on a UserStatus: the member's value
StatusValue(status) ==
    CASE status = "EXPECTED" -> "Expected"
      [] status = "ARRIVED" -> "Arrived"
      [] status = "EXPIRED" -> "Expired"

StatusValues == {"Expected", "Arrived", "Expired"}

\* pydantic's parse of a UserStatus field: the member with that value
StatusOfValue(value) ==
    CASE value = "Expected" -> "EXPECTED"
      [] value = "Arrived" -> "ARRIVED"
      [] value = "Expired" -> "EXPIRED"

\* the user ids that occur in the documents
UserIds == Users \cup {3}

\* json.dumps turns an int key into its decimal string
KeyTable == [u \in UserIds |-> ToString(u)]
KeyOf(user_id) == KeyTable[user_id]
\* Dict[int, ...] validation / int(uid): the int a decimal key denotes
IdTable == [k \in {ToString(u) : u \in UserIds} |-> CHOOSE u \in UserIds : ToString(u) = k]
IdOfKey(key) == IdTable[key]

\* JsonSessionRepository.save_session: the document written for a session
\* (isoformat keeps an instant to the microsecond, so an instant is its own encoding)
save_session(session) ==
    [ start_time |-> session.start_time,
      last_activity_time |-> session.last_activity_time,
      users |-> [ key \in {KeyOf(u) : u \in DOMAIN session.users} |->
                    [session.users[IdOfKey(key)] EXCEPT !.status = StatusValue(@)] ] ]

\* a session file that holds no JSON document, by its content
Unreadable(content) == << "unreadable", content >>
\* a file of length 0
NoContent == ""
\* a text that json.loads rejects
NotJson == "{"
\* bytes that are not UTF-8
NotUtf8 == "\\xff"

\* JsonRepository._read_file: the exception it lets through, and the data it
\* returns.  None for an absent file, for a file without content, and for an
\* IOError or a JSONDecodeError, which it catches; the UnicodeDecodeError of
\* f.read() on bytes that are not UTF-8 is neither, and is not caught
read_file(file) ==
    IF file = None
    THEN [ err |-> "none", data |-> None ]
    ELSE IF Len(file) = 1
    THEN [ err |-> "none", data |-> file ]
    ELSE IF file[2] = NotUtf8
    THEN [ err |-> "UnicodeDecodeError", data |-> None ]
    ELSE [ err |-> "none", data |-> None ]

\* JsonSessionRepository.get_session: None for data that is None or empty
\* (`if not data`) and for a document that fails validation, else the Session
\* rebuilt from the document
get_session(doc) ==
    LET data == read_file(doc).data
    IN  IF data = None
        THEN None
        ELSE IF DOMAIN data[1] = {}
        THEN None
        ELSE IF \E key \in DOMAIN data[1].users :
                    data[1].users[key].status \notin StatusValues
        THEN None
        ELSE Some([ users |-> [ u \in {IdOfKey(key) : key \in DOMAIN data[1].users} |->
                                  [data[1].users[KeyOf(u)] EXCEPT
                                      !.status = StatusOfValue(@)] ],
                    start_time |-> data[1].start_time,
                    last_activity_time |-> data[1].last_activity_time ])

\* JsonStatsRepository.get_all_stats: user id -> UserStats
get_all_stats(doc) ==
    [ u \in {IdOfKey(key) : key \in DOMAIN doc} |-> doc[KeyOf(u)] ]

\* JsonStatsRepository.get_stats_for_user: None when the user has no record
get_stats_for_user(doc, user_id) ==
    LET all_stats == get_all_stats(doc)
    IN  IF user_id \in DOMAIN all_stats THEN Some(all_stats[user_id]) ELSE None

\* JsonStatsRepository.save_stats: the document written for a stats mapping
save_stats(stats) ==
    [ key \in {KeyOf(u) : u \in DOMAIN stats} |-> stats[IdOfKey(key)] ]

\* ----------------------------------------------------------------- service
\* ReadyUpService._get_or_create_user_stats
get_or_create_user_stats(doc, user_id, user_name) ==
    LET found == get_stats_for_user(doc, user_id)
        stats == IF found = None THEN NewUserStats(user_id, user_name) ELSE found[1]
    IN  [stats EXCEPT !.user_name = user_name]

\* Python truth of the `minutes` argument: None and 0 are both false
Truthy(minutes) == minutes # None /\ minutes[1] # 0

\* record_eta refusing a request that gives both minutes and a time of day
record_eta_exclusive(doc, user_id, user_name, minutes, time_str) ==
    LET loaded == get_session(doc)
        session == IF loaded = None THEN NewSession ELSE loaded[1]
        res == IF minutes # None /\ time_str # None
               THEN [ err |-> "ValueError", session |-> session, eta |-> None ]
               ELSE IF Truthy(minutes)
               THEN set_eta(session, user_id, user_name, minutes, None)
               ELSE set_eta(session, user_id, user_name, None, time_str)
    IN  IF res.err # "none"
        THEN [ err |-> res.err, eta |-> None, sessionDoc |-> doc ]
        ELSE [ err |-> "none", eta |-> res.eta,
               sessionDoc |-> Some(save_session(res.session)) ]

\* record_eta saving the session it loaded or created before set_eta is called
record_eta_saving_first(doc, user_id, user_name, minutes, time_str) ==
    LET loaded == get_session(doc)
        session == IF loaded = None THEN NewSession ELSE loaded[1]
        res == IF Truthy(minutes)
               THEN set_eta(session, user_id, user_name, minutes, None)
               ELSE set_eta(session, user_id, user_name, None, time_str)
    IN  IF res.err # "none"
        THEN [ err |-> res.err, eta |-> None, sessionDoc |-> Some(save_session(session)) ]
        ELSE [ err |-> "none", eta |-> res.eta,
               sessionDoc |-> Some(save_session(res.session)) ]

\* ReadyUpService.record_eta: the error raised or the UserETA returned, and the
\* session document afterwards
record_eta(doc, user_id, user_name, minutes, time_str) ==
    LET loaded == get_session(doc)
        session == IF loaded = None THEN NewSession ELSE loaded[1]
        res == IF Truthy(minutes)
               THEN set_eta(session, user_id, user_name, minutes, None)
               ELSE set_eta(session, user_id, user_name, None, time_str)
    IN  IF res.err # "none"
        THEN [ err |-> res.err, eta |-> None, sessionDoc |-> doc ]
        ELSE [ err |-> "none", eta |-> res.eta,
               sessionDoc |-> Some(save_session(res.session)) ]

\* mark_as_arrived without the save_session that follows the removal of the user
mark_as_arrived_unsaved(doc, sdoc, user_id, user_name) ==
    LET loaded == get_session(doc)
        res == mark_arrived(loaded[1], user_id)
        stats == record_arrival(get_or_create_user_stats(sdoc, user_id, user_name),
                                res.eta[1])
        all_stats == Put(get_all_stats(sdoc), user_id, stats)
    IN  IF loaded = None
        THEN [ err |-> "KeyError", eta |-> None, sessionDoc |-> doc, statsDoc |-> sdoc ]
        ELSE IF res.err # "none"
        THEN [ err |-> res.err, eta |-> None, sessionDoc |-> doc, statsDoc |-> sdoc ]
        ELSE [ err |-> "none", eta |-> res.eta,
               sessionDoc |-> doc,
               statsDoc |-> save_stats(all_stats) ]

\* mark_as_arrived saving the arriving user's record alone as the stats document
mark_as_arrived_own_record(doc, sdoc, user_id, user_name) ==
    LET loaded == get_session(doc)
        res == mark_arrived(loaded[1], user_id)
        stats == record_arrival(get_or_create_user_stats(sdoc, user_id, user_name),
                                res.eta[1])
        all_stats == [ u \in {user_id} |-> stats ]
        session == [res.session EXCEPT !.users = Del(@, user_id)]
    IN  IF loaded = None
        THEN [ err |-> "KeyError", eta |-> None, sessionDoc |-> doc, statsDoc |-> sdoc ]
        ELSE IF res.err # "none"
        THEN [ err |-> res.err, eta |-> None, sessionDoc |-> doc, statsDoc |-> sdoc ]
        ELSE [ err |-> "none", eta |-> res.eta,
               sessionDoc |-> Some(save_session(session)),
               statsDoc |-> save_stats(all_stats) ]

\* ReadyUpService.mark_as_arrived: the error raised or the UserETA returned, and
\* both documents afterwards
mark_as_arrived(doc, sdoc, user_id, user_name) ==
    LET loaded == get_session(doc)
        res == mark_arrived(loaded[1], user_id)
        stats == record_arrival(get_or_create_user_stats(sdoc, user_id, user_name),
                                res.eta[1])
        all_stats == Put(get_all_stats(sdoc), user_id, stats)
        session == [res.session EXCEPT !.users = Del(@, user_id)]
    IN  IF loaded = None
        THEN [ err |-> "KeyError", eta |-> None, sessionDoc |-> doc, statsDoc |-> sdoc ]
        ELSE IF res.err # "none"
        THEN [ err |-> res.err, eta |-> None, sessionDoc |-> doc, statsDoc |-> sdoc ]
        ELSE [ err |-> "none", eta |-> res.eta,
               sessionDoc |-> Some(save_session(session)),
               statsDoc |-> save_stats(all_stats) ]

\* the keys of a dict as a list (ascending; nothing below depends on the order
\* except the order of the returned lists)
RECURSIVE KeyList(_)
KeyList(keys) ==
    IF keys = {}
    THEN << >>
    ELSE LET k == CHOOSE x \in keys : \A y \in keys : x <= y
         IN  << k >> \o KeyList(keys \ {k})

\* check_for_late_users with the window closed at both ends
check_for_late_users_closed_window(doc) ==
    LET loaded == get_session(doc)
        t == get_aware_now
        InWindow(user_eta) ==
            /\ user_eta.status = "EXPECTED"
            /\ (t - MINUTE) <= user_eta.arrival_timestamp
            /\ user_eta.arrival_timestamp <= t
        values == [ i \in 1 .. Len(KeyList(DOMAIN loaded[1].users)) |->
                      loaded[1].users[KeyList(DOMAIN loaded[1].users)[i]] ]
    IN  IF loaded = None THEN << >> ELSE SelectSeq(values, InWindow)

\* check_for_late_users with the window open at both ends
check_for_late_users_open_window(doc) ==
    LET loaded == get_session(doc)
        t == get_aware_now
        InWindow(user_eta) ==
            /\ user_eta.status = "EXPECTED"
            /\ (t - MINUTE) < user_eta.arrival_timestamp
            /\ user_eta.arrival_timestamp < t
        values == [ i \in 1 .. Len(KeyList(DOMAIN loaded[1].users)) |->
                      loaded[1].users[KeyList(DOMAIN loaded[1].users)[i]] ]
    IN  IF loaded = None THEN << >> ELSE SelectSeq(values, InWindow)

\* ReadyUpService.check_for_late_users: the list returned
check_for_late_users(doc) ==
    LET loaded == get_session(doc)
        t == get_aware_now
        InWindow(user_eta) ==
            /\ user_eta.status = "EXPECTED"
            /\ (t - MINUTE) < user_eta.arrival_timestamp
            /\ user_eta.arrival_timestamp <= t
        values == [ i \in 1 .. Len(KeyList(DOMAIN loaded[1].users)) |->
                      loaded[1].users[KeyList(DOMAIN loaded[1].users)[i]] ]
    IN  IF loaded = None THEN << >> ELSE SelectSeq(values, InWindow)

\* the for loop of check_and_expire_etas over users_to_check, carrying the session,
\* the stats document (saved inside the loop), the list built so far and stats_changed
RECURSIVE ExpireLoop(_, _, _, _, _)
ExpireLoop(users_to_check, session, sdoc, expired_users_info, stats_changed) ==
    IF users_to_check = << >>
    THEN [ session |-> session, statsDoc |-> sdoc,
           expired_users_info |-> expired_users_info, stats_changed |-> stats_changed ]
    ELSE LET user_id == Head(users_to_check)
             rest == Tail(users_to_check)
             user_eta == session.users[user_id]
             expired == [user_eta EXCEPT !.status = "EXPIRED"]
             stats == record_no_show(
                          get_or_create_user_stats(sdoc, expired.user_id, expired.user_name))
             all_stats == Put(get_all_stats(sdoc), user_id, stats)
         IN  IF user_id \notin DOMAIN session.users
             THEN ExpireLoop(rest, session, sdoc, expired_users_info, stats_changed)
             ELSE IF user_eta.status # "EXPECTED"
             THEN ExpireLoop(rest, session, sdoc, expired_users_info, stats_changed)
             ELSE IF should_expire(user_eta)
             THEN ExpireLoop(rest,
                             [session EXCEPT !.users = Del(@, user_id)],
                             save_stats(all_stats),
                             Append(expired_users_info, expired),
                             TRUE)
             ELSE ExpireLoop(rest, session, sdoc, expired_users_info, stats_changed)

\* check_and_expire_etas counting an expiry as activity of the session
check_and_expire_etas_touching(doc, sdoc) ==
    LET loaded == get_session(doc)
        done == ExpireLoop(KeyList(DOMAIN loaded[1].users), loaded[1], sdoc, << >>, FALSE)
    IN  IF loaded = None
        THEN [ list |-> << >>, sessionDoc |-> doc, statsDoc |-> sdoc ]
        ELSE [ list |-> done.expired_users_info,
               sessionDoc |-> IF done.stats_changed
                              THEN Some(save_session(update_activity_time(done.session)))
                              ELSE doc,
               statsDoc |-> done.statsDoc ]

\* check_and_expire_etas without the save_session that follows the loop
check_and_expire_etas_unsaved(doc, sdoc) ==
    LET loaded == get_session(doc)
        done == ExpireLoop(KeyList(DOMAIN loaded[1].users), loaded[1], sdoc, << >>, FALSE)
    IN  IF loaded = None
        THEN [ list |-> << >>, sessionDoc |-> doc, statsDoc |-> sdoc ]
        ELSE [ list |-> done.expired_users_info,
               sessionDoc |-> doc,
               statsDoc |-> done.statsDoc ]

\* ReadyUpService.check_and_expire_etas: the list returned and both documents afterwards
check_and_expire_etas(doc, sdoc) ==
    LET loaded == get_session(doc)
        done == ExpireLoop(KeyList(DOMAIN loaded[1].users), loaded[1], sdoc, << >>, FALSE)
    IN  IF loaded = None
        THEN [ list |-> << >>, sessionDoc |-> doc, statsDoc |-> sdoc ]
        ELSE [ list |-> done.expired_users_info,
               sessionDoc |-> IF done.stats_changed
                              THEN Some(save_session(done.session))
                              ELSE doc,
               statsDoc |-> done.statsDoc ]

\* archive_session_if_inactive without the test that the session has no users
archive_session_if_idle(doc) ==
    LET loaded == get_session(doc)
    IN  IF loaded # None /\ is_inactive(loaded[1])
        THEN [ flag |-> TRUE, sessionDoc |-> None ]
        ELSE [ flag |-> FALSE, sessionDoc |-> doc ]

\* ReadyUpService.archive_session_if_inactive: the flag returned and the session
\* document afterwards (clear_session removes the file)
\* an archival round that never clears
archive_session_never(doc) == [ flag |-> FALSE, sessionDoc |-> doc ]

archive_session_if_inactive(doc) ==
    LET loaded == get_session(doc)
    IN  IF loaded # None /\ DOMAIN loaded[1].users = {} /\ is_inactive(loaded[1])
        THEN [ flag |-> TRUE, sessionDoc |-> None ]
        ELSE [ flag |-> FALSE, sessionDoc |-> doc ]

\* a float that is a quotient of two integers, kept as the pair of them (the
\* divisor positive), so that two of them compare as the floats do: for counters
\* of this size two different quotients differ by far more than a rounding
Quotient(n, d) == << n, d >>
QuotientLess(x, y) == x[1] * y[2] < y[1] * x[2]

\* UserStats.on_time_percentage
on_time_percentage(stats) ==
    LET arrived_sessions == stats.total_sessions - stats.no_shows
    IN  IF arrived_sessions = 0
        THEN Quotient(0, 1)
        ELSE Quotient(stats.on_time_arrivals * 100, arrived_sessions)

\* UserStats.average_lateness_seconds
average_lateness_seconds(stats) ==
    IF stats.late_arrivals = 0
    THEN 0
    ELSE stats.total_lateness_seconds \div stats.late_arrivals

\* a sort key that puts the on-time percentage before the no-shows
leaderboard_key_percentage_first(s) ==
    << Quotient(- on_time_percentage(s)[1], on_time_percentage(s)[2]),
       Quotient(s.no_shows, 1),
       Quotient(average_lateness_seconds(s), 1) >>

\* the key of get_leaderboard:
\* (s.no_shows, -s.on_time_percentage, s.average_lateness_seconds)
leaderboard_key(s) ==
    << Quotient(s.no_shows, 1),
       Quotient(- on_time_percentage(s)[1], on_time_percentage(s)[2]),
       Quotient(average_lateness_seconds(s), 1) >>

\* Python's < on two tuples of numbers of the same length
RECURSIVE TupleLess(_, _)
TupleLess(k1, k2) ==
    IF k1 = << >>
    THEN FALSE
    ELSE IF QuotientLess(Head(k1), Head(k2))
    THEN TRUE
    ELSE IF QuotientLess(Head(k2), Head(k1))
    THEN FALSE
    ELSE TupleLess(Tail(k1), Tail(k2))

\* sorted() on a list of <<key, value>>: ascending by key, equal keys in the order
\* they came in
RECURSIVE sorted(_)
sorted(pairs) ==
    IF pairs = << >>
    THEN << >>
    ELSE LET n == Len(pairs)
             x == pairs[n]
             front == sorted(SubSeq(pairs, 1, n - 1))
             after == {i \in 1 .. Len(front) : TupleLess(x[1], front[i][1])}
             at == IF after = {}
                   THEN Len(front) + 1
                   ELSE CHOOSE i \in after : \A j \in after : i <= j
         IN  SubSeq(front, 1, at - 1) \o << x >> \o SubSeq(front, at, Len(front))

\* ReadyUpService.get_leaderboard: the list returned
get_leaderboard(sdoc) ==
    LET all_stats == get_all_stats(sdoc)
        keys == KeyList(DOMAIN all_stats)
        ranked == sorted([ i \in 1 .. Len(keys) |->
                             << leaderboard_key(all_stats[keys[i]]), all_stats[keys[i]] >> ])
    IN  [ i \in 1 .. Len(ranked) |-> ranked[i][2] ]

\* ------------------------------------------------------------------ system
\* the record kept of a call: which operation, with which arguments, what it raised
\* (err), what it returned (eta, list or flag according to the operation), and
\* whether it repeats the call right before it (repeat)
Call(op, user, name, minutes, time_str, err, eta, list, flag, repeat) ==
    [ op |-> op, user |-> user, name |-> name, minutes |-> minutes,
      time_str |-> time_str, err |-> err, eta |-> eta, list |-> list, flag |-> flag,
      repeat |-> repeat ]

\* the call right before this one was the same operation for the same user and
\* took effect: an arrival that succeeded, a scan that expired somebody
Repeats(op, user) ==
    /\ last.op = op
    /\ last.user = user
    /\ last.err = "none"
    /\ (op = "check_and_expire_etas" => last.list # << >>)

\* the tasks of the event loop that run service calls
Tasks == {1, 2}

\* the two files, each behind the asyncio.Lock of its repository
Files == {"session", "stats"}

\* a lock nobody holds and nobody waits for
FreeLock == [ holder |-> 0, waiters |-> << >>, io |-> FALSE ]

\* no _write_file in progress, no temporary file in the directory
NoWrite == [ at |-> "idle", data |-> None, temp |-> None, left |-> 0 ]

\* the first prototype is not running
NoProto == << >>

\* a task that is running no call
IdleTask ==
    [ pc |-> "idle", op |-> "none", user_id |-> 0, user_name |-> "", minutes |-> None,
      session |-> None, user_eta |-> None, stats |-> None, all_stats |-> << >>,
      users_to_check |-> << >>, expired_users_info |-> << >>, stats_changed |-> FALSE ]

Init ==
    /\ tasks = [t \in Tasks |-> IdleTask]
    /\ calls = 0
    /\ polls = [next |-> StartNow, returned |-> [u \in Users |-> 0]]
    /\ locks = [f \in Files |-> FreeLock]
    /\ disk = [f \in Files |-> NoWrite]
    /\ proto = NoProto
    /\ now = StartNow
    /\ sessionDoc = None
    /\ statsDoc = << >>
    /\ last = Call("start", 0, "", None, None, "none", None, << >>, FALSE, FALSE)
    /\ outcome = [u \in Users |-> "none"]

\* the sum of f over a set of keys
RECURSIVE SumOver(_, _)
SumOver(keys, f) ==
    IF keys = {}
    THEN 0
    ELSE LET k == CHOOSE x \in keys : TRUE
         IN  f[k] + SumOver(keys \ {k}, f)

\* how many outcomes the stats document holds
Folded(sdoc) == SumOver(DOMAIN sdoc, [k \in DOMAIN sdoc |-> sdoc[k].total_sessions])

\* how many ETAs of users other than u the session document holds
Pending(doc, u) ==
    LET loaded == get_session(doc)
    IN  IF loaded = None THEN 0 ELSE Cardinality(DOMAIN loaded[1].users \ {u})

\* /eta: ReadyUpCog.eta -> ReadyUpService.record_eta
RecordEta(u, n, m, ts) ==
    /\ Folded(statsDoc) + Pending(sessionDoc, u) < MaxFolds
    /\ LET r == record_eta(sessionDoc, u, n, m, ts)
       IN  /\ sessionDoc' = r.sessionDoc
           /\ last' = Call("record_eta", u, n, m, ts, r.err, r.eta, << >>, FALSE,
                           Repeats("record_eta", u))
           /\ outcome' = IF r.err = "none"
                         THEN [outcome EXCEPT ![u] = "expected"]
                         ELSE outcome
    /\ UNCHANGED << now, statsDoc, taskVars, pollVars, lockVars, diskVars, protoVars >>

\* /arrived: ReadyUpCog.arrived -> ReadyUpService.mark_as_arrived
MarkAsArrived(u, n) ==
    /\ LET r == mark_as_arrived(sessionDoc, statsDoc, u, n)
       IN  /\ sessionDoc' = r.sessionDoc
           /\ statsDoc' = r.statsDoc
           /\ last' = Call("mark_as_arrived", u, n, None, None, r.err, r.eta, << >>, FALSE,
                           Repeats("mark_as_arrived", u))
           /\ outcome' = IF r.err = "none"
                         THEN [outcome EXCEPT ![u] = "arrived"]
                         ELSE outcome
    /\ UNCHANGED << now, taskVars, pollVars, lockVars, diskVars, protoVars >>

\* check_for_late_users taking the users it returns out of the stored session
CheckForLateUsers_removing ==
    /\ LET list == check_for_late_users(sessionDoc)
           listed == {list[i].user_id : i \in 1 .. Len(list)}
           loaded == get_session(sessionDoc)
       IN  /\ last' = Call("check_for_late_users", 0, "", None, None, "none", None,
                           list, FALSE, FALSE)
           /\ sessionDoc' = IF list = << >>
                            THEN sessionDoc
                            ELSE Some(save_session(
                                     [loaded[1] EXCEPT !.users =
                                         [u \in (DOMAIN @) \ listed |-> @[u]]]))
    /\ UNCHANGED << now, statsDoc, outcome, taskVars, pollVars, lockVars, diskVars, protoVars >>

\* check_lateness_task -> ReadyUpService.check_for_late_users
CheckForLateUsers ==
    /\ last' = Call("check_for_late_users", 0, "", None, None, "none", None,
                    check_for_late_users(sessionDoc), FALSE, FALSE)
    /\ UNCHANGED << now, sessionDoc, statsDoc, outcome, taskVars, pollVars, lockVars, diskVars, protoVars >>

\* expire_etas_task -> ReadyUpService.check_and_expire_etas
CheckAndExpireEtas ==
    /\ \E r \in {check_and_expire_etas(sessionDoc, statsDoc)} :
       LET gone == {r.list[i].user_id : i \in 1 .. Len(r.list)}
       IN  /\ sessionDoc' = r.sessionDoc
           /\ statsDoc' = r.statsDoc
           /\ last' = Call("check_and_expire_etas", 0, "", None, None, "none", None,
                           r.list, FALSE, Repeats("check_and_expire_etas", 0))
           /\ outcome' = [u \in Users |-> IF u \in gone THEN "expired" ELSE outcome[u]]
    /\ UNCHANGED << now, taskVars, pollVars, lockVars, diskVars, protoVars >>

\* session_archival_task -> ReadyUpService.archive_session_if_inactive
ArchiveSessionIfInactive ==
    /\ \E r \in {archive_session_if_inactive(sessionDoc)} :
           /\ sessionDoc' = r.sessionDoc
           /\ last' = Call("archive_session_if_inactive", 0, "", None, None, "none", None,
                           << >>, r.flag, FALSE)
           /\ outcome' = IF r.flag THEN [u \in Users |-> "none"] ELSE outcome
    /\ UNCHANGED << now, statsDoc, taskVars, pollVars, lockVars, diskVars, protoVars >>

\* the clock advances between calls: by an hour, or from a whole hour to the
\* next instant after it
TickSteps == {1, HOUR}

TickAllowed(d) ==
    CASE d = 1 -> (now % HOUR) = 0
      [] d = HOUR -> ((now - StartNow) \div HOUR) < MaxHourTicks

Tick(d) ==
    /\ TickAllowed(d)
    /\ now' = now + d
    /\ last' = Call("tick", 0, "", None, None, "none", None, << >>, FALSE, FALSE)
    /\ UNCHANGED << sessionDoc, statsDoc, outcome, taskVars, pollVars, lockVars, diskVars, protoVars >>

Next ==
    \/ \E u \in Users, n \in Names, m \in MinutesInputs, ts \in TimeInputs :
          RecordEta(u, n, m, ts)
    \/ \E u \in Users, n \in Names : MarkAsArrived(u, n)
    \/ CheckForLateUsers
    \/ CheckAndExpireEtas
    \/ ArchiveSessionIfInactive
    \/ \E d \in TickSteps : Tick(d)

Spec == Init /\ [][Next]_vars

\* ------------------------------------------------- tasks suspending at storage
\* A task runs one service call.  Its pc names the storage call it is suspended
\* at; between two storage calls the code runs without a switch of task.  A read
\* or a write of a document is one step (JsonRepository serialises them per file).
\* The one pc that is not a suspension is "mark_arrived": the task is inside
\* Session.mark_arrived, the status assigned and the arrival instant not yet.

\* every task is suspended at a storage call, or idle
Suspended == \A t \in Tasks : tasks[t].pc # "mark_arrived"

\* minutes argument of the calls that run as tasks
TaskMinutesInputs == {Some(60)}

\* the clock advances by hours between calls
TaskTickSteps == {HOUR}

\* task t may take up a call: it is the first idle task (which of two idle tasks
\* takes up a call makes no difference)
Free(t) ==
    /\ tasks[t].pc = "idle"
    /\ \A s \in Tasks : s < t => tasks[s].pc # "idle"
    /\ calls < MaxCalls

\* the rest of users_to_check from the first user that the loop of
\* check_and_expire_etas expires: the users before it are skipped by `continue` or
\* by should_expire() being false
RECURSIVE NextToExpire(_, _)
NextToExpire(users_to_check, session) ==
    IF users_to_check = << >>
    THEN << >>
    ELSE LET user_id == Head(users_to_check)
         IN  IF /\ user_id \in DOMAIN session.users
                /\ session.users[user_id].status = "EXPECTED"
                /\ should_expire(session.users[user_id])
             THEN users_to_check
             ELSE NextToExpire(Tail(users_to_check), session)

\* ExpireNext stamping the expired record with the current instant
ExpireNext_stamped(task, users_to_check) ==
    LET rest == NextToExpire(users_to_check, task.session[1])
        user_id == Head(rest)
        expired == [task.session[1].users[user_id] EXCEPT
                       !.status = "EXPIRED",
                       !.actual_arrival_time = Some(get_aware_now)]
    IN  IF rest # << >>
        THEN [task EXCEPT !.pc = "get_stats_for_user",
                          !.user_id = expired.user_id,
                          !.user_name = expired.user_name,
                          !.session = Some([task.session[1] EXCEPT
                                               !.users[user_id] = expired]),
                          !.user_eta = Some(expired),
                          !.expired_users_info = Append(@, expired),
                          !.users_to_check = Tail(rest)]
        ELSE IF task.stats_changed
        THEN [task EXCEPT !.pc = "save_session", !.users_to_check = << >>]
        ELSE IdleTask

\* the loop of check_and_expire_etas runs on from users_to_check: up to the
\* get_stats_for_user of the next user it expires, or to its end
ExpireNext(task, users_to_check) ==
    LET rest == NextToExpire(users_to_check, task.session[1])
        user_id == Head(rest)
        expired == [task.session[1].users[user_id] EXCEPT !.status = "EXPIRED"]
    IN  IF rest # << >>
        THEN [task EXCEPT !.pc = "get_stats_for_user",
                          !.user_id = expired.user_id,
                          !.user_name = expired.user_name,
                          !.session = Some([task.session[1] EXCEPT
                                               !.users[user_id] = expired]),
                          !.user_eta = Some(expired),
                          !.expired_users_info = Append(@, expired),
                          !.users_to_check = Tail(rest)]
        ELSE IF task.stats_changed
        THEN [task EXCEPT !.pc = "save_session", !.users_to_check = << >>]
        ELSE IdleTask

\* record_eta up to its save_session: get_session, Session(), set_eta
RecordEtaLoad(t, u, n, m, ts) ==
    /\ Suspended
    /\ Free(t)
    /\ Folded(statsDoc) + Pending(sessionDoc, u) < MaxFolds
    /\ LET loaded == get_session(sessionDoc)
           session == IF loaded = None THEN NewSession ELSE loaded[1]
           res == IF Truthy(m)
                  THEN set_eta(session, u, n, m, None)
                  ELSE set_eta(session, u, n, None, ts)
       IN  tasks' = IF res.err # "none"
                    THEN tasks
                    ELSE [tasks EXCEPT ![t] =
                            [IdleTask EXCEPT !.pc = "save_session",
                                             !.op = "record_eta",
                                             !.user_id = u,
                                             !.user_name = n,
                                             !.session = Some(res.session),
                                             !.user_eta = res.eta]]
    /\ calls' = calls + 1
    /\ UNCHANGED << now, sessionDoc, statsDoc, last, outcome, pollVars, lockVars, diskVars, protoVars >>

\* mark_as_arrived up to the assignment of the status in Session.mark_arrived:
\* get_session, the two raises, user_eta_instance.status = ARRIVED
MarkAsArrivedLoad(t, u, n) ==
    /\ Suspended
    /\ Free(t)
    /\ LET loaded == get_session(sessionDoc)
           res == mark_arrived(loaded[1], u)
           marked == [loaded[1] EXCEPT !.users[u].status = "ARRIVED"]
       IN  tasks' = IF loaded = None
                    THEN tasks
                    ELSE IF res.err # "none"
                    THEN tasks
                    ELSE [tasks EXCEPT ![t] =
                            [IdleTask EXCEPT !.pc = "mark_arrived",
                                             !.op = "mark_as_arrived",
                                             !.user_id = u,
                                             !.user_name = n,
                                             !.session = Some(marked),
                                             !.user_eta = Some(marked.users[u])]]
    /\ calls' = calls + 1
    /\ UNCHANGED << now, sessionDoc, statsDoc, last, outcome, pollVars, lockVars, diskVars, protoVars >>

\* the rest of Session.mark_arrived: actual_arrival_time = get_aware_now(),
\* _update_activity_time(); the task then suspends at get_stats_for_user
MarkArrivedStamp(t) ==
    /\ tasks[t].pc = "mark_arrived"
    /\ LET user_id == tasks[t].user_id
           stamped == update_activity_time(
                          [tasks[t].session[1] EXCEPT
                              !.users[user_id].actual_arrival_time = Some(get_aware_now)])
       IN  tasks' = [tasks EXCEPT ![t] =
                        [@ EXCEPT !.pc = "get_stats_for_user",
                                  !.session = Some(stamped),
                                  !.user_eta = Some(stamped.users[user_id])]]
    /\ UNCHANGED << now, sessionDoc, statsDoc, last, outcome, calls, pollVars, lockVars, diskVars, protoVars >>

\* _get_or_create_user_stats reads the stats document; record_arrival or
\* record_no_show then folds the outcome into the task's own UserStats
GetStatsForUser(t) ==
    /\ Suspended
    /\ tasks[t].pc = "get_stats_for_user"
    /\ LET stats == get_or_create_user_stats(statsDoc, tasks[t].user_id, tasks[t].user_name)
           folded == IF tasks[t].op = "mark_as_arrived"
                     THEN record_arrival(stats, tasks[t].user_eta[1])
                     ELSE record_no_show(stats)
       IN  tasks' = [tasks EXCEPT ![t] =
                        [@ EXCEPT !.pc = "get_all_stats", !.stats = Some(folded)]]
    /\ UNCHANGED << now, sessionDoc, statsDoc, last, outcome, calls, pollVars, lockVars, diskVars, protoVars >>

\* get_all_stats reads the stats document again; all_stats[user_id] = stats
GetAllStats(t) ==
    /\ Suspended
    /\ tasks[t].pc = "get_all_stats"
    /\ tasks' = [tasks EXCEPT ![t] =
                    [@ EXCEPT !.pc = "save_stats",
                              !.all_stats = Put(get_all_stats(statsDoc),
                                                tasks[t].user_id, tasks[t].stats[1])]]
    /\ UNCHANGED << now, sessionDoc, statsDoc, last, outcome, calls, pollVars, lockVars, diskVars, protoVars >>

\* save_stats writes the stats document; del session.users[user_id]; an arrival
\* then suspends at save_session, a scan goes on with its loop
SaveStats(t) ==
    /\ Suspended
    /\ tasks[t].pc = "save_stats"
    /\ statsDoc' = save_stats(tasks[t].all_stats)
    /\ LET user_id == tasks[t].user_id
           removed == [tasks[t] EXCEPT
                          !.session = Some([tasks[t].session[1] EXCEPT
                                               !.users = Del(@, user_id)])]
       IN  /\ tasks' = [tasks EXCEPT ![t] =
                          IF tasks[t].op = "mark_as_arrived"
                          THEN [removed EXCEPT !.pc = "save_session"]
                          ELSE ExpireNext([removed EXCEPT !.stats_changed = TRUE],
                                          removed.users_to_check)]
           /\ outcome' = [outcome EXCEPT ![user_id] =
                            IF tasks[t].op = "mark_as_arrived"
                            THEN "arrived" ELSE "expired"]
    /\ UNCHANGED << now, sessionDoc, last, calls, pollVars, lockVars, diskVars, protoVars >>

\* save_session writes the session document; the call returns
SaveSession(t) ==
    /\ Suspended
    /\ tasks[t].pc = "save_session"
    /\ sessionDoc' = Some(save_session(tasks[t].session[1]))
    /\ tasks' = [tasks EXCEPT ![t] = IdleTask]
    /\ outcome' = IF tasks[t].op = "record_eta"
                  THEN [outcome EXCEPT ![tasks[t].user_id] = "expected"]
                  ELSE outcome
    /\ UNCHANGED << now, statsDoc, last, calls, pollVars, lockVars, diskVars, protoVars >>

\* check_and_expire_etas up to the get_stats_for_user of the first user it
\* expires: get_session, users_to_check, the loop
CheckAndExpireLoad(t) ==
    /\ Suspended
    /\ Free(t)
    /\ LET loaded == get_session(sessionDoc)
           task == [IdleTask EXCEPT !.op = "check_and_expire_etas",
                                    !.session = loaded]
       IN  tasks' = IF loaded = None
                    THEN tasks
                    ELSE [tasks EXCEPT ![t] =
                            ExpireNext(task, KeyList(DOMAIN loaded[1].users))]
    /\ calls' = calls + 1
    /\ UNCHANGED << now, sessionDoc, statsDoc, last, outcome, pollVars, lockVars, diskVars, protoVars >>

\* the clock advances by an hour while no call is running (a call takes far less)
TaskTick(d) ==
    /\ \A t \in Tasks : tasks[t].pc = "idle"
    /\ Tick(d)

NextTasks ==
    \/ \E t \in Tasks, u \in Users, n \in Names, m \in TaskMinutesInputs :
          RecordEtaLoad(t, u, n, m, None)
    \/ \E t \in Tasks, u \in Users, n \in Names : MarkAsArrivedLoad(t, u, n)
    \/ \E t \in Tasks : MarkArrivedStamp(t)
    \/ \E t \in Tasks : CheckAndExpireLoad(t)
    \/ \E t \in Tasks : GetStatsForUser(t)
    \/ \E t \in Tasks : GetAllStats(t)
    \/ \E t \in Tasks : SaveStats(t)
    \/ \E t \in Tasks : SaveSession(t)
    \/ \E d \in TaskTickSteps : TaskTick(d)

SpecTasks == Init /\ [][NextTasks]_vars

\* -------------------------------------------------- the lateness poll, by minutes
\* check_lateness_task runs check_for_late_users once a minute (tasks.loop starts
\* it when the cog is built, before any command).  SpecPoll follows the clock
\* through each minute: the instant of a run, the instant after it, and the
\* instant before the next run.

\* how many runs of check_lateness_task are followed
MaxPolls == 3

\* what is given to /eta while the poll is followed: minutes, or a time of day
PollEtaInputs == { << Some(1), None >>, << None, Some(<<23, 1>>) >> }

\* /eta: ReadyUpService.record_eta; the user's ETA is a new one
PollRecordEta(u, n, m, ts) ==
    /\ LET r == record_eta(sessionDoc, u, n, m, ts)
       IN  /\ sessionDoc' = r.sessionDoc
           /\ last' = Call("record_eta", u, n, m, ts, r.err, r.eta, << >>, FALSE, FALSE)
           /\ outcome' = IF r.err = "none"
                         THEN [outcome EXCEPT ![u] = "expected"]
                         ELSE outcome
           /\ polls' = IF r.err = "none"
                       THEN [polls EXCEPT !.returned[u] = 0]
                       ELSE polls
    /\ UNCHANGED << now, statsDoc, taskVars, lockVars, diskVars, protoVars >>

\* /arrived: ReadyUpService.mark_as_arrived; the user's ETA is over (one arrival
\* is followed: the stats have no part in the poll)
PollMarkAsArrived(u, n) ==
    /\ statsDoc = << >>
    /\ LET r == mark_as_arrived(sessionDoc, statsDoc, u, n)
       IN  /\ sessionDoc' = r.sessionDoc
           /\ statsDoc' = r.statsDoc
           /\ last' = Call("mark_as_arrived", u, n, None, None, r.err, r.eta, << >>, FALSE,
                           FALSE)
           /\ outcome' = IF r.err = "none"
                         THEN [outcome EXCEPT ![u] = "arrived"]
                         ELSE outcome
           /\ polls' = IF r.err = "none"
                       THEN [polls EXCEPT !.returned[u] = 0]
                       ELSE polls
    /\ UNCHANGED << now, taskVars, lockVars, diskVars, protoVars >>

\* check_lateness_task: one run, at the instant it is due; the next is due a minute
\* later
Poll ==
    /\ now = polls.next
    /\ polls.next < StartNow + MaxPolls * MINUTE
    /\ LET newly_late_users == check_for_late_users(sessionDoc)
           named == {newly_late_users[i].user_id : i \in 1 .. Len(newly_late_users)}
       IN  /\ last' = Call("check_for_late_users", 0, "", None, None, "none", None,
                           newly_late_users, FALSE, FALSE)
           /\ polls' = [ next |-> polls.next + MINUTE,
                         returned |-> [u \in Users |->
                                         IF u \in named
                                         THEN polls.returned[u] + 1
                                         ELSE polls.returned[u]] ]
    /\ UNCHANGED << now, sessionDoc, statsDoc, outcome, taskVars, lockVars, diskVars, protoVars >>

\* the clock within a minute: from the instant of a run to the instant after it,
\* on to the instant before the next run, and to the next run; it does not pass a
\* run that is due
PollTickSteps == {1, MINUTE - 2}

PollTick(d) ==
    /\ now + d <= polls.next
    /\ CASE d = 1 -> ((now - StartNow) % MINUTE) \in {0, MINUTE - 1}
         [] d = MINUTE - 2 -> ((now - StartNow) % MINUTE) = 1
    /\ now' = now + d
    /\ last' = Call("tick", 0, "", None, None, "none", None, << >>, FALSE, FALSE)
    /\ UNCHANGED << sessionDoc, statsDoc, outcome, taskVars, pollVars, lockVars, diskVars, protoVars >>

NextPoll ==
    \/ \E u \in Users, n \in Names, given \in PollEtaInputs :
          PollRecordEta(u, n, given[1], given[2])
    \/ \E u \in Users, n \in Names : PollMarkAsArrived(u, n)
    \/ Poll
    \/ \E d \in PollTickSteps : PollTick(d)

SpecPoll == Init /\ [][NextPoll]_vars

\* ------------------------------------------------------------ the leaderboard
\* get_leaderboard is a function of the stats document alone.  SpecBoard starts
\* from any stats document whose records the folds can have produced and applies
\* it.

\* the largest value of a counter of the stats documents tried
MaxCount == 1

\* the users of the stats documents tried
BoardUsers == UserIds

\* the counters of a UserStats after one fold or more: record_arrival and
\* record_no_show keep the total, and lateness comes with late arrivals only
BoardCounters ==
    { c \in [ on_time_arrivals : 0 .. MaxCount, late_arrivals : 0 .. MaxCount,
              no_shows : 0 .. MaxCount, total_lateness_seconds : 0 .. MaxCount ] :
        /\ c.on_time_arrivals + c.late_arrivals + c.no_shows >= 1
        /\ c.late_arrivals = 0 => c.total_lateness_seconds = 0 }

\* the stats document that holds, for the users given counters, a record with them
BoardDoc(given) ==
    save_stats([ u \in {x \in BoardUsers : given[x] # None} |->
                   [ user_id |-> u,
                     user_name |-> "nick",
                     total_sessions |-> given[u][1].on_time_arrivals
                                          + given[u][1].late_arrivals + given[u][1].no_shows,
                     on_time_arrivals |-> given[u][1].on_time_arrivals,
                     total_lateness_seconds |-> given[u][1].total_lateness_seconds,
                     late_arrivals |-> given[u][1].late_arrivals,
                     no_shows |-> given[u][1].no_shows ] ])

InitBoard ==
    /\ now = StartNow
    /\ sessionDoc = None
    /\ \E given \in [BoardUsers -> {None} \cup {Some(c) : c \in BoardCounters}] :
          statsDoc = BoardDoc(given)
    /\ last = Call("start", 0, "", None, None, "none", None, << >>, FALSE, FALSE)
    /\ outcome = [u \in Users |-> "none"]
    /\ tasks = [t \in Tasks |-> IdleTask]
    /\ calls = 0
    /\ polls = [next |-> StartNow, returned |-> [u \in Users |-> 0]]
    /\ locks = [f \in Files |-> FreeLock]
    /\ disk = [f \in Files |-> NoWrite]
    /\ proto = NoProto

\* /leaderboard: ReadyUpCog.leaderboard -> ReadyUpService.get_leaderboard
GetLeaderboard ==
    /\ last' = Call("get_leaderboard", 0, "", None, None, "none", None,
                    get_leaderboard(statsDoc), FALSE, FALSE)
    /\ UNCHANGED << now, sessionDoc, statsDoc, outcome, taskVars, pollVars, lockVars, diskVars, protoVars >>

NextBoard == GetLeaderboard

SpecBoard == InitBoard /\ [][NextBoard]_vars

\* ------------------------------------------------ the files as they are found
\* The service reads whatever the session file holds.  SpecStore starts from a
\* session file in any condition (absent, without content, not JSON, not UTF-8,
\* an empty object, a document with a status the schema does not know, a valid
\* session), at an instant before or after the deadlines, and runs the calls one
\* after another, the read-only queries among them.

\* ReadyUpService.get_session_status
get_session_status(doc) == get_session(doc)

\* ReadyUpService.get_user_stats
get_user_stats(sdoc, user_id) == get_stats_for_user(sdoc, user_id)

\* the session document after each of the users given has declared, at StartNow,
\* an ETA of 60 minutes
DeclaredDoc(users) ==
    save_session([ users |-> [ u \in users |->
                                 UserETA(u, "nick", StartNow, StartNow + 60 * MINUTE) ],
                   start_time |-> StartNow,
                   last_activity_time |-> StartNow ])

\* a document whose one record has a status that is no value of UserStatus
InvalidDoc == [DeclaredDoc({1}) EXCEPT !.users[KeyOf(1)].status = "Late"]

\* the session files SpecStore starts from
StoredFiles ==
    {None, Unreadable(NoContent), Unreadable(NotJson), Unreadable(NotUtf8),
     Some(<< >>), Some(InvalidDoc)}
        \cup {Some(DeclaredDoc(users)) : users \in SUBSET Users}

\* the stats files SpecStore starts from: none, or one no-show of user 1
StoredStats ==
    {<< >>, save_stats([ u \in {1} |-> record_no_show(NewUserStats(u, "nick")) ])}

\* the instants SpecStore starts at: the declaration, the deadline, past the
\* expiration threshold, past the inactivity timeout
StoreInstants ==
    {StartNow, StartNow + 60 * MINUTE,
     StartNow + (60 + ETA_EXPIRATION_MINUTES) * MINUTE + 1,
     StartNow + (SESSION_INACTIVITY_TIMEOUT_HOURS + 1) * HOUR}

InitStore ==
    /\ now \in StoreInstants
    /\ sessionDoc \in StoredFiles
    /\ statsDoc \in StoredStats
    /\ last = Call("start", 0, "", None, None, "none", None, << >>, FALSE, FALSE)
    /\ outcome = [u \in Users |-> "none"]
    /\ tasks = [t \in Tasks |-> IdleTask]
    /\ calls = 0
    /\ polls = [next |-> StartNow, returned |-> [u \in Users |-> 0]]
    /\ locks = [f \in Files |-> FreeLock]
    /\ disk = [f \in Files |-> NoWrite]
    /\ proto = NoProto

\* the session file can be read: _read_file returns
Readable == read_file(sessionDoc).err = "none"

\* a call whose get_session lets through what _read_file raised: nothing is
\* returned and nothing is written
ReadRaises(op, u, n) ==
    /\ ~ Readable
    /\ last' = Call(op, u, n, None, None, read_file(sessionDoc).err, None, << >>,
                    FALSE, FALSE)
    /\ UNCHANGED << now, sessionDoc, statsDoc, outcome, taskVars, pollVars, lockVars, diskVars, protoVars >>

\* /status: ReadyUpCog.status -> ReadyUpService.get_session_status
GetSessionStatus ==
    /\ Readable
    /\ last' = Call("get_session_status", 0, "", None, None, "none",
                    get_session_status(sessionDoc), << >>, FALSE, FALSE)
    /\ UNCHANGED << now, sessionDoc, statsDoc, outcome, taskVars, pollVars, lockVars, diskVars, protoVars >>

\* /stats: ReadyUpCog.stats -> ReadyUpService.get_user_stats
GetUserStats(u) ==
    /\ last' = Call("get_user_stats", u, "", None, None, "none",
                    get_user_stats(statsDoc, u), << >>, FALSE, FALSE)
    /\ UNCHANGED << now, sessionDoc, statsDoc, outcome, taskVars, pollVars, lockVars, diskVars, protoVars >>

NextStore ==
    \/ GetSessionStatus
    \/ ReadRaises("get_session_status", 0, "")
    \/ \E u \in Users : GetUserStats(u)
    \/ GetLeaderboard
    \/ Readable /\ CheckForLateUsers
    \/ ReadRaises("check_for_late_users", 0, "")
    \/ Readable /\ CheckAndExpireEtas
    \/ ReadRaises("check_and_expire_etas", 0, "")
    \/ Readable /\ ArchiveSessionIfInactive
    \/ ReadRaises("archive_session_if_inactive", 0, "")
    \/ \E u \in Users, n \in Names : Readable /\ MarkAsArrived(u, n)
    \/ \E u \in Users, n \in Names : ReadRaises("mark_as_arrived", u, n)
    \/ \E u \in Users, n \in Names, m \in TaskMinutesInputs :
          Readable /\ RecordEta(u, n, m, None)
    \/ \E u \in Users, n \in Names : ReadRaises("record_eta", u, n)

SpecStore == InitStore /\ [][NextStore]_vars

\* ------------------------------------------- the calls as tasks, lock by lock
\* SpecLock follows the tasks of the event loop from suspension to suspension.
\* Every storage call takes the asyncio.Lock of its file (JsonRepository._lock).
\* A task is suspended only where the code awaits something that is not ready:
\* the file I/O of aiofiles, inside the lock, and a lock that is held or waited
\* for.  Lock.acquire returns at once when the lock is free and nobody waits, and
\* _read_file returns None without any I/O when its file does not exist, so a
\* task runs on through those.  Lock.release wakes the first waiter, and until
\* that waiter has run every other acquire queues behind it: the lock passes to
\* the first waiter.

\* how many calls the tasks of SpecLock take up
MaxLockCalls == 3

\* the file a storage call works on
FileOf(pc) ==
    IF pc \in {"get_session", "save_session", "clear_session"} THEN "session" ELSE "stats"

\* a lock that is taken whoever holds it
acquire_always(lock, t) == [lock EXCEPT !.holder = t, !.io = FALSE]

\* asyncio.Lock.acquire by task t: the lock is taken when it is free and nobody
\* waits, else the task joins the waiters
acquire(lock, t) ==
    IF lock.holder = 0 /\ lock.waiters = << >>
    THEN [lock EXCEPT !.holder = t]
    ELSE [lock EXCEPT !.waiters = Append(@, t)]

\* asyncio.Lock.release: the lock is free, or passes to the first waiter
release(lock) ==
    IF lock.waiters = << >>
    THEN FreeLock
    ELSE [ holder |-> Head(lock.waiters), waiters |-> Tail(lock.waiters), io |-> FALSE ]

\* the files, the locks and the tasks, as one run of a task changes them
Config ==
    [ tasks |-> tasks, sessionDoc |-> sessionDoc, statsDoc |-> statsDoc,
      locks |-> locks, outcome |-> outcome ]

\* self._file_path.exists()
Exists(c, f) == IF f = "session" THEN c.sessionDoc # None ELSE c.statsDoc # << >>

\* task t cannot run on: it runs no call, it waits for a lock, or it waits for
\* file I/O inside a lock
Resting(c, t) ==
    LET lock == c.locks[FileOf(c.tasks[t].pc)]
    IN  \/ c.tasks[t].pc = "idle"
        \/ \E i \in 1 .. Len(lock.waiters) : lock.waiters[i] = t
        \/ (lock.holder = t /\ lock.io)

\* what a call goes on with when get_session has returned: record_eta to its
\* save_session, mark_as_arrived to its first read of the stats, the scan to the
\* first user it expires, the archival to clear_session; or the call returns
AfterGetSession(task, loaded) ==
    CASE task.op = "record_eta" ->
           LET session == IF loaded = None THEN NewSession ELSE loaded[1]
               res == IF Truthy(task.minutes)
                      THEN set_eta(session, task.user_id, task.user_name,
                                   task.minutes, None)
                      ELSE set_eta(session, task.user_id, task.user_name, None, None)
           IN  IF res.err # "none"
               THEN IdleTask
               ELSE [task EXCEPT !.pc = "save_session",
                                 !.session = Some(res.session),
                                 !.user_eta = res.eta]
      [] task.op = "mark_as_arrived" ->
           IF loaded = None
           THEN IdleTask
           ELSE LET res == mark_arrived(loaded[1], task.user_id)
                IN  IF res.err # "none"
                    THEN IdleTask
                    ELSE [task EXCEPT !.pc = "get_stats_for_user",
                                      !.session = Some(res.session),
                                      !.user_eta = res.eta]
      [] task.op = "check_and_expire_etas" ->
           IF loaded = None
           THEN IdleTask
           ELSE ExpireNext([task EXCEPT !.session = loaded],
                           KeyList(DOMAIN loaded[1].users))
      [] task.op = "archive_session_if_inactive" ->
           IF loaded # None /\ DOMAIN loaded[1].users = {} /\ is_inactive(loaded[1])
           THEN [task EXCEPT !.pc = "clear_session"]
           ELSE IdleTask

\* the storage call of task t is done inside the lock: a read has the content of
\* the file, a write has replaced the file, clear_session has removed it; the
\* lock is released and the call goes on to its next storage call, or returns.
\* What _read_file raises leaves the lock through `async with` as well, and ends
\* the call
Returned(c, t) ==
    LET task == c.tasks[t]
        freed == [c EXCEPT !.locks[FileOf(task.pc)] = release(@)]
        removed == [task EXCEPT !.session = Some([task.session[1] EXCEPT
                                                    !.users = Del(@, task.user_id)])]
    IN  CASE task.pc = "get_session" ->
               [freed EXCEPT !.tasks[t] =
                   IF read_file(c.sessionDoc).err # "none"
                   THEN IdleTask
                   ELSE AfterGetSession(task, get_session(c.sessionDoc))]
          [] task.pc = "get_stats_for_user" ->
               LET stats == get_or_create_user_stats(c.statsDoc, task.user_id,
                                                     task.user_name)
                   folded == IF task.op = "mark_as_arrived"
                             THEN record_arrival(stats, task.user_eta[1])
                             ELSE record_no_show(stats)
               IN  [freed EXCEPT !.tasks[t] =
                       [task EXCEPT !.pc = "get_all_stats", !.stats = Some(folded)]]
          [] task.pc = "get_all_stats" ->
               [freed EXCEPT !.tasks[t] =
                   [task EXCEPT !.pc = "save_stats",
                                !.all_stats = Put(get_all_stats(c.statsDoc),
                                                  task.user_id, task.stats[1])]]
          [] task.pc = "save_stats" ->
               [freed EXCEPT
                   !.statsDoc = save_stats(task.all_stats),
                   !.outcome[task.user_id] =
                       IF task.op = "mark_as_arrived" THEN "arrived" ELSE "expired",
                   !.tasks[t] =
                       IF task.op = "mark_as_arrived"
                       THEN [removed EXCEPT !.pc = "save_session"]
                       ELSE ExpireNext([removed EXCEPT !.stats_changed = TRUE],
                                       removed.users_to_check)]
          [] task.pc = "save_session" ->
               [freed EXCEPT
                   !.sessionDoc = Some(save_session(task.session[1])),
                   !.outcome = IF task.op = "record_eta"
                               THEN [@ EXCEPT ![task.user_id] = "expected"]
                               ELSE @,
                   !.tasks[t] = IdleTask]
          [] task.pc = "clear_session" ->
               [freed EXCEPT !.sessionDoc = None,
                             !.outcome = [u \in Users |-> "none"],
                             !.tasks[t] = IdleTask]

\* task t runs one stretch of code that does not suspend: it asks for the lock
\* of its storage call; or, holding it, starts the file I/O of a write or of the
\* read of a file that exists; or the storage call is done
Step(c, t) ==
    LET pc == c.tasks[t].pc
        f == FileOf(pc)
        lock == c.locks[f]
    IN  IF lock.holder # t
        THEN [c EXCEPT !.locks[f] = acquire(lock, t)]
        ELSE IF lock.io
        THEN Returned(c, t)
        ELSE IF pc \in {"save_session", "save_stats"}
        THEN [c EXCEPT !.locks[f].io = TRUE]
        ELSE IF pc = "clear_session"
        THEN Returned(c, t)
        ELSE IF Exists(c, f)
        THEN [c EXCEPT !.locks[f].io = TRUE]
        ELSE Returned(c, t)

\* task t runs until it is suspended or its call has returned
RECURSIVE Run(_, _)
Run(c, t) ==
    IF Resting(c, t)
    THEN c
    ELSE CHOOSE d \in { Run(next, t) : next \in {Step(c, t)} } : TRUE

\* the event loop runs task t from configuration c
Goes(t, c) ==
    \E d \in { Run(from, t) : from \in {c} } :
        /\ tasks' = d.tasks
        /\ sessionDoc' = d.sessionDoc
        /\ statsDoc' = d.statsDoc
        /\ locks' = d.locks
        /\ outcome' = d.outcome

\* task t is the first idle task and a further call may be taken up
LockFree(t) ==
    /\ tasks[t].pc = "idle"
    /\ \A s \in Tasks : s < t => tasks[s].pc # "idle"
    /\ calls < MaxLockCalls

\* task t has taken up a call and is about to call get_session
Taken(t, op, u, n, m) ==
    [Config EXCEPT !.tasks[t] =
        [IdleTask EXCEPT !.pc = "get_session", !.op = op, !.user_id = u,
                         !.user_name = n, !.minutes = m]]

\* /eta as a task of the event loop
RecordEtaTask(t, u, n, m) ==
    /\ LockFree(t)
    /\ calls' = calls + 1
    /\ Goes(t, Taken(t, "record_eta", u, n, m))
    /\ UNCHANGED << now, last, pollVars, diskVars, protoVars >>

\* /arrived as a task of the event loop
MarkAsArrivedTask(t, u, n) ==
    /\ LockFree(t)
    /\ calls' = calls + 1
    /\ Goes(t, Taken(t, "mark_as_arrived", u, n, None))
    /\ UNCHANGED << now, last, pollVars, diskVars, protoVars >>

\* one round of the expiry task
CheckAndExpireTask(t) ==
    /\ LockFree(t)
    /\ calls' = calls + 1
    /\ Goes(t, Taken(t, "check_and_expire_etas", 0, "", None))
    /\ UNCHANGED << now, last, pollVars, diskVars, protoVars >>

\* one round of the archival task
ArchiveTask(t) ==
    /\ LockFree(t)
    /\ calls' = calls + 1
    /\ Goes(t, Taken(t, "archive_session_if_inactive", 0, "", None))
    /\ UNCHANGED << now, last, pollVars, diskVars, protoVars >>

\* the file I/O task t waits for is done: the task runs on
IoDone(t) ==
    /\ tasks[t].pc # "idle"
    /\ locks[FileOf(tasks[t].pc)].holder = t
    /\ locks[FileOf(tasks[t].pc)].io
    /\ Goes(t, Step(Config, t))
    /\ UNCHANGED << now, last, calls, pollVars, diskVars, protoVars >>

\* the lock task t waited for has passed to it: the task runs on
Granted(t) ==
    /\ tasks[t].pc # "idle"
    /\ locks[FileOf(tasks[t].pc)].holder = t
    /\ ~ locks[FileOf(tasks[t].pc)].io
    /\ Goes(t, Step(Config, t))
    /\ UNCHANGED << now, last, calls, pollVars, diskVars, protoVars >>

\* SpecLock starts from a session in which some users have declared an ETA (or
\* from none), with or without a stats file, at one of the instants of SpecStore
InitLock ==
    /\ now \in StoreInstants
    /\ \E users \in SUBSET Users :
          /\ sessionDoc \in {None, Some(DeclaredDoc(users))}
          /\ outcome = [u \in Users |->
                          IF u \in (IF sessionDoc = None THEN {} ELSE users) THEN "expected" ELSE "none"]
    /\ statsDoc \in StoredStats
    /\ last = Call("start", 0, "", None, None, "none", None, << >>, FALSE, FALSE)
    /\ tasks = [t \in Tasks |-> IdleTask]
    /\ calls = 0
    /\ polls = [next |-> StartNow, returned |-> [u \in Users |-> 0]]
    /\ locks = [f \in Files |-> FreeLock]
    /\ disk = [f \in Files |-> NoWrite]
    /\ proto = NoProto

NextLock ==
    \/ \E t \in Tasks, u \in Users, n \in Names, m \in TaskMinutesInputs :
          RecordEtaTask(t, u, n, m)
    \/ \E t \in Tasks, u \in Users, n \in Names : MarkAsArrivedTask(t, u, n)
    \/ \E t \in Tasks : CheckAndExpireTask(t)
    \/ \E t \in Tasks : ArchiveTask(t)
    \/ \E t \in Tasks : IoDone(t)
    \/ \E t \in Tasks : Granted(t)

SpecLock == InitLock /\ [][NextLock]_vars

\* ------------------------------------------------- storage calls that fail
\* SpecFault runs the tasks of SpecLock over files in any condition, and lets
\* the file I/O of a storage call end in an IOError: _read_file catches it and
\* returns None, _write_file catches it and leaves the file as it was; either
\* way the call goes on.  SpecAlone is SpecFault with the calls one after
\* another.  SpecFaultLive adds that file I/O ends and that a task the lock has
\* passed to runs.

\* in SpecFault every task takes up one call
OneCallEach == calls < Cardinality(Tasks)

\* the configuration in which a read by task t finds nothing
Hidden(c, t) ==
    IF FileOf(c.tasks[t].pc) = "session"
    THEN [c EXCEPT !.sessionDoc = None]
    ELSE [c EXCEPT !.statsDoc = << >>]

\* the file I/O of task t has raised an IOError, which the repository logs: the
\* data of a read is None, a write has not replaced the file; the lock is
\* released and the call goes on
Failed(c, t) ==
    LET read == c.tasks[t].pc \in {"get_session", "get_stats_for_user", "get_all_stats"}
        d == Returned(IF read THEN Hidden(c, t) ELSE c, t)
    IN  [d EXCEPT !.sessionDoc = c.sessionDoc, !.statsDoc = c.statsDoc]

\* the file I/O task t waits for ends in an IOError
IoFails(t) ==
    /\ tasks[t].pc # "idle"
    /\ locks[FileOf(tasks[t].pc)].holder = t
    /\ locks[FileOf(tasks[t].pc)].io
    /\ Goes(t, Failed(Config, t))
    /\ UNCHANGED << now, last, calls, pollVars, diskVars, protoVars >>

\* SpecFault starts from a session file in any condition
InitFault ==
    /\ now \in {StartNow + 60 * MINUTE,
                StartNow + (SESSION_INACTIVITY_TIMEOUT_HOURS + 1) * HOUR}
    /\ sessionDoc \in StoredFiles
    /\ outcome = [u \in Users |->
                    IF u \in (IF get_session(sessionDoc) = None
                              THEN {}
                              ELSE DOMAIN get_session(sessionDoc)[1].users)
                    THEN "expected" ELSE "none"]
    /\ statsDoc \in StoredStats
    /\ last = Call("start", 0, "", None, None, "none", None, << >>, FALSE, FALSE)
    /\ tasks = [t \in Tasks |-> IdleTask]
    /\ calls = 0
    /\ polls = [next |-> StartNow, returned |-> [u \in Users |-> 0]]
    /\ locks = [f \in Files |-> FreeLock]
    /\ disk = [f \in Files |-> NoWrite]
    /\ proto = NoProto

NextFault ==
    \/ \E t \in Tasks, u \in Users, n \in Names, m \in TaskMinutesInputs :
          OneCallEach /\ RecordEtaTask(t, u, n, m)
    \/ \E t \in Tasks, u \in Users, n \in Names :
          OneCallEach /\ MarkAsArrivedTask(t, u, n)
    \/ \E t \in Tasks : OneCallEach /\ CheckAndExpireTask(t)
    \/ \E t \in Tasks : OneCallEach /\ ArchiveTask(t)
    \/ \E t \in Tasks : IoDone(t)
    \/ \E t \in Tasks : IoFails(t)
    \/ \E t \in Tasks : Granted(t)

SpecFault == InitFault /\ [][NextFault]_vars

\* file I/O ends, one way or the other, and the event loop runs a task that has
\* the lock
SpecFaultLive ==
    /\ SpecFault
    /\ \A t \in Tasks : WF_vars(IoDone(t) \/ IoFails(t))
    /\ \A t \in Tasks : WF_vars(Granted(t))

\* the event loop runs no call: the next call runs by itself
Alone == \A t \in Tasks : tasks[t].pc = "idle"

NextAlone ==
    \/ \E u \in Users, n \in Names, m \in TaskMinutesInputs :
          Alone /\ OneCallEach /\ RecordEtaTask(1, u, n, m)
    \/ \E u \in Users, n \in Names : Alone /\ OneCallEach /\ MarkAsArrivedTask(1, u, n)
    \/ Alone /\ OneCallEach /\ CheckAndExpireTask(1)
    \/ Alone /\ OneCallEach /\ ArchiveTask(1)
    \/ IoDone(1)
    \/ IoFails(1)

SpecAlone == InitFault /\ [][NextAlone]_vars

\* ------------------------------------------------- the write, step by step
\* SpecWrite follows JsonRepository._write_file statement by statement, on both
\* files: the temporary file is opened for writing, the text is written to it,
\* os.replace puts it in the place of the file, and the finally clause removes a
\* temporary file that is still there.  Opening, writing and replacing can raise
\* an IOError, which is caught; the process can crash at any statement, and then
\* nothing more of the write runs.

\* how many temporary files crashes may leave next to a file
MaxLeft == 1

\* the data save_session and save_stats hand to _write_file
WriteData(f) ==
    IF f = "session"
    THEN {DeclaredDoc({}), DeclaredDoc({1})}
    ELSE StoredStats \ {<< >>}

\* the document at the path of a repository
PathOf(f) == IF f = "session" THEN sessionDoc ELSE statsDoc

\* a file that holds the whole text of a document
Whole(f, data) == IF f = "session" THEN Some(data) ELSE data

\* what a file holds that was written up to part of the text of a document: the
\* document when all of it was written, else no JSON document
Written(f, text) ==
    IF text.part = "all"
    THEN Whole(f, text.data)
    ELSE IF text.part = "none" THEN Unreadable(NoContent) ELSE Unreadable(NotJson)

\* the finally clause without its os.remove
remove_temp_left(w) == w

\* finally: if temp_path.exists(): os.remove(temp_path)
remove_temp(w) == [w EXCEPT !.temp = None]

\* the steps of SpecWrite leave everything but the two files and disk alone
WriteFrame(f) ==
    /\ IF f = "session" THEN statsDoc' = statsDoc ELSE sessionDoc' = sessionDoc
    /\ UNCHANGED << now, last, outcome, taskVars, pollVars, lockVars, protoVars >>

\* a step of _write_file on file f that leaves the file itself alone
TempStep(f, w) ==
    /\ disk' = [disk EXCEPT ![f] = w]
    /\ UNCHANGED << sessionDoc, statsDoc, now, last, outcome, taskVars, pollVars,
                    lockVars, protoVars >>

\* _write_file(data) is entered: the lock is taken and temp_path is chosen
WriteFile(f, data) ==
    /\ disk[f].at = "idle"
    /\ TempStep(f, [disk[f] EXCEPT !.at = "open", !.data = Some(data)])

\* aiofiles.open(temp_path, "w") creates the temporary file, empty
OpenTemp(f) ==
    /\ disk[f].at = "open"
    /\ TempStep(f, [disk[f] EXCEPT !.at = "write",
                                   !.temp = Some([data |-> disk[f].data[1],
                                                  part |-> "none"])])

\* aiofiles.open raises an IOError: there is no temporary file
OpenRaises(f) ==
    /\ disk[f].at = "open"
    /\ TempStep(f, [disk[f] EXCEPT !.at = "finally"])

\* f.write has put a part of the text into the temporary file
WritePart(f) ==
    /\ disk[f].at = "write"
    /\ disk[f].temp[1].part = "none"
    /\ TempStep(f, [disk[f] EXCEPT !.temp[1].part = "some"])

\* f.write has returned and the temporary file is closed: it holds the text
WriteDone(f) ==
    /\ disk[f].at = "write"
    /\ TempStep(f, [disk[f] EXCEPT !.at = "replace", !.temp[1].part = "all"])

\* f.write raises an IOError: the temporary file stays as far as it was written
WriteRaises(f) ==
    /\ disk[f].at = "write"
    /\ TempStep(f, [disk[f] EXCEPT !.at = "finally"])

\* os.replace(temp_path, self._file_path): the file is what the temporary file
\* was, and the temporary file is no more
Replace(f) ==
    /\ disk[f].at = "replace"
    /\ IF f = "session"
       THEN sessionDoc' = Written(f, disk[f].temp[1])
       ELSE statsDoc' = Written(f, disk[f].temp[1])
    /\ disk' = [disk EXCEPT ![f] = [@ EXCEPT !.at = "finally", !.temp = None]]
    /\ WriteFrame(f)

\* os.replace raises an OSError, which `except IOError` catches
ReplaceRaises(f) ==
    /\ disk[f].at = "replace"
    /\ TempStep(f, [disk[f] EXCEPT !.at = "finally"])

\* the finally clause, after which _write_file returns
Finally(f) ==
    /\ disk[f].at = "finally"
    /\ TempStep(f, [remove_temp(disk[f]) EXCEPT !.at = "idle", !.data = None])

\* the process ends in the middle of a write: no statement of it runs any more,
\* and a temporary file that is there stays
Crash ==
    /\ \E f \in Files : disk[f].at # "idle"
    /\ \A f \in Files : disk[f].temp # None => disk[f].left < MaxLeft
    /\ disk' = [f \in Files |->
                  [ at |-> "idle", data |-> None, temp |-> None,
                    left |-> IF disk[f].temp # None
                             THEN disk[f].left + 1
                             ELSE disk[f].left ]]
    /\ UNCHANGED << sessionDoc, statsDoc, now, last, outcome, taskVars, pollVars,
                    lockVars, protoVars >>

InitWrite ==
    /\ now = StartNow
    /\ sessionDoc \in {None, Some(DeclaredDoc({}))}
    /\ statsDoc \in StoredStats
    /\ last = Call("start", 0, "", None, None, "none", None, << >>, FALSE, FALSE)
    /\ outcome = [u \in Users |-> "none"]
    /\ tasks = [t \in Tasks |-> IdleTask]
    /\ calls = 0
    /\ polls = [next |-> StartNow, returned |-> [u \in Users |-> 0]]
    /\ locks = [f \in Files |-> FreeLock]
    /\ disk = [f \in Files |-> NoWrite]
    /\ proto = NoProto

NextWrite ==
    \/ \E f \in Files : \E data \in WriteData(f) : WriteFile(f, data)
    \/ \E f \in Files : OpenTemp(f)
    \/ \E f \in Files : OpenRaises(f)
    \/ \E f \in Files : WritePart(f)
    \/ \E f \in Files : WriteDone(f)
    \/ \E f \in Files : WriteRaises(f)
    \/ \E f \in Files : Replace(f)
    \/ \E f \in Files : ReplaceRaises(f)
    \/ \E f \in Files : Finally(f)
    \/ Crash

SpecWrite == InitWrite /\ [][NextWrite]_vars

\* ------------------------------------------------ the rounds that keep coming
\* SpecLive runs the calls one after another while the clock advances by the
\* hour, with the two periodic tasks coming round again and again
\* (expire_etas_task and session_archival_task are tasks.loop tasks).  Commands
\* arrive during the first hours only, so that from some point on nobody declares
\* an ETA, and the clock goes on until the timeouts that the last command can
\* start have run out.

\* the last instant at which a command arrives
CommandsUntil == StartNow + HOUR

\* commands arrive
Commands == now <= CommandsUntil

\* the last instant of SpecLive: past the last command by the inactivity timeout
\* and an hour, which is past the last deadline by the expiration threshold too
LiveHorizon == CommandsUntil + (SESSION_INACTIVITY_TIMEOUT_HOURS + 1) * HOUR

\* an hour passes
LiveTick ==
    /\ now < LiveHorizon
    /\ now' = now + HOUR
    /\ last' = Call("tick", 0, "", None, None, "none", None, << >>, FALSE, FALSE)
    /\ UNCHANGED << sessionDoc, statsDoc, outcome, taskVars, pollVars, lockVars,
                    diskVars, protoVars >>

NextLive ==
    \/ \E u \in Users, n \in Names, m \in TaskMinutesInputs :
          Commands /\ RecordEta(u, n, m, None)
    \/ \E u \in Users, n \in Names : Commands /\ MarkAsArrived(u, n)
    \/ CheckAndExpireEtas
    \/ ArchiveSessionIfInactive
    \/ LiveTick

\* time keeps advancing and the periodic tasks keep running
SpecLive ==
    /\ Init
    /\ [][NextLive]_vars
    /\ WF_vars(LiveTick)
    /\ WF_vars(CheckAndExpireEtas)
    /\ WF_vars(ArchiveSessionIfInactive)

\* ------------------------------------------------------- the first prototype
\* src/main.py keeps everything in the global dict user_data and runs on one
\* event loop: the commands !eta and !ready, the voice-channel event and the
\* background task check_intervals.  A handler runs without interruption up to
\* its next await; the commands and the event change user_data before their
\* first await, and check_intervals is suspended at every channel.send and at
\* its sleep.  Every command comes from one text channel; bot.get_channel finds it
\* or returns None, which is an input of every handler that asks: nothing changes
\* the answer between two awaits.
\* `proto` holds the prototype's state:
\*   data, order   user_data: the dict of each user (None: no entry) and the
\*                 order of insertion
\*   loop          where check_intervals stands and its local variables
\*   etas          how many !eta commands have been given
\*   scored        by how much on_time_score + late_count of a user has grown
\*                 since the user's last !eta
\*   sends         how often each notification has gone out for the user's
\*                 present ETA;  prev: the notifications of the user's earlier ETAs
\*   refused       the user whose !ready or voice join since the user's last !eta
\*                 channel the arrival already marked (0: nobody)

\* how many !eta commands are given
MaxEtas == 2

\* the arguments of !eta, split at ":" and read as integers
ProtoTimes == { << 23, 1 >>, << 24, 0 >>, << 23 >> }

\* what bot.get_channel returns
Channels == { None, Some("channel") }

Kinds == { "one_min_before", "15min_late", "30min_late", "60min_late", "no_show" }

\* the windows of check_intervals, in minutes
intervals ==
    << [ lo |-> -1, hi |-> 0, key |-> "one_min_before" ],
       [ lo |-> 15, hi |-> 16, key |-> "15min_late" ],
       [ lo |-> 30, hi |-> 31, key |-> "30min_late" ],
       [ lo |-> 60, hi |-> 61, key |-> "60min_late" ] >>

\* delta_minutes >= 24 * 60
NoShowAfter == 24 * 60 * MINUTE

condition(i, delta) ==
    /\ intervals[i].lo * MINUTE <= delta
    /\ delta < intervals[i].hi * MINUTE

\* a set that forgets what is added to it
add_nothing(notifications_sent, key) == notifications_sent

\* notifications_sent.add(key)
add(notifications_sent, key) == notifications_sent \cup {key}

NoSends == [ k \in Kinds |-> 0 ]

\* check_intervals between two passes
Sleeping ==
    [ pc |-> "sleep", now |-> 0, todo |-> << >>, to_remove |-> << >>, user |-> 0,
      delta |-> 0, idx |-> 0, detached |-> FALSE, keys |-> {}, counts |-> NoSends ]

\* now.replace(hour=hour, minute=minute, second=0, microsecond=0), a day later
\* when that is before now; None for what raises ValueError
eta_of(time_str) ==
    IF Len(time_str) # 2
    THEN None
    ELSE IF time_str[1] \notin 0 .. 23 \/ time_str[2] \notin 0 .. 59
    THEN None
    ELSE LET eta_dt == (now \div DAY) * DAY + time_str[1] * HOUR + time_str[2] * MINUTE
         IN  Some(IF eta_dt < now THEN eta_dt + DAY ELSE eta_dt)

\* !eta
set_eta_proto(p, user_id, time_str) ==
    LET eta_dt == eta_of(time_str)
        known == p.data[user_id] # None
        user_info == IF known
                     THEN p.data[user_id][1]
                     ELSE [ eta |-> None, on_time_score |-> 0, late_count |-> 0,
                            arrived |-> FALSE, notifications_sent |-> {} ]
        updated == [user_info EXCEPT !.eta = eta_dt, !.arrived = FALSE,
                                     !.notifications_sent = {}]
        \* the task suspended at a send for this user keeps the set it read
        held == /\ p.loop.pc \in {"no_show", "interval"}
                /\ p.loop.user = user_id
                /\ ~ p.loop.detached
                /\ known
    IN  IF eta_dt = None
        THEN [p EXCEPT !.etas = @ + 1]
        ELSE [p EXCEPT !.data[user_id] = Some(updated),
                       !.order = IF known THEN @ ELSE Append(@, user_id),
                       !.etas = @ + 1,
                       !.scored[user_id] = 0,
                       !.prev[user_id] = @ \cup {k \in Kinds : p.sends[user_id][k] > 0},
                       !.sends[user_id] = NoSends,
                       !.loop = IF held
                                THEN [@ EXCEPT !.detached = TRUE,
                                               !.keys = user_info.notifications_sent,
                                               !.counts = p.sends[user_id]]
                                ELSE @,
                       !.refused = IF @ = user_id THEN 0 ELSE @]

\* the scoring of ready and of on_voice_state_update
scored_arrival(p, user_id) ==
    LET eta_dt == p.data[user_id][1].eta[1]
    IN  IF now - eta_dt <= 0
        THEN [p EXCEPT !.data[user_id][1].on_time_score = @ + 1,
                       !.scored[user_id] = @ + 1]
        ELSE [p EXCEPT !.data[user_id][1].late_count = @ + 1,
                       !.scored[user_id] = @ + 1]

\* !ready that does not look at the arrived flag
ready_again(p, user_id) ==
    IF p.data[user_id] = None
    THEN p
    ELSE scored_arrival([p EXCEPT !.data[user_id][1].arrived = TRUE], user_id)

\* !ready
ready(p, user_id) ==
    IF p.data[user_id] = None
    THEN p
    ELSE IF p.data[user_id][1].eta = None
    THEN p
    ELSE IF p.data[user_id][1].arrived
    THEN [p EXCEPT !.refused = user_id]
    ELSE scored_arrival([p EXCEPT !.data[user_id][1].arrived = TRUE], user_id)

\* a member joins a voice channel
on_voice_state_update(p, user_id, channel) ==
    IF p.data[user_id] = None
    THEN p
    ELSE IF p.data[user_id][1].arrived
    THEN [p EXCEPT !.refused = user_id]
    ELSE IF channel = None
    THEN [p EXCEPT !.data[user_id][1].arrived = TRUE]
    ELSE scored_arrival([p EXCEPT !.data[user_id][1].arrived = TRUE], user_id)

\* the set that the name notifications_sent refers to in check_intervals
local_sent(p) ==
    IF p.loop.detached THEN p.loop.keys ELSE p.data[p.loop.user][1].notifications_sent

\* the key is added and the message goes out: check_intervals is suspended
Notify(p, key, pc, i) ==
    LET u == p.loop.user
    IN  IF p.loop.detached
        THEN [p EXCEPT !.loop.keys = add(@, key),
                       !.loop.counts[key] = @ + 1,
                       !.loop.pc = pc, !.loop.idx = i]
        ELSE [p EXCEPT !.data[u][1].notifications_sent = add(@, key),
                       !.sends[u][key] = @ + 1,
                       !.loop.pc = pc, !.loop.idx = i]

\* the end of a pass: the users of to_remove are popped and the task sleeps
EndPass(p) ==
    LET gone == {p.loop.to_remove[i] : i \in 1 .. Len(p.loop.to_remove)}
    IN  [p EXCEPT !.data = [u \in Users |-> IF u \in gone THEN None ELSE @[u]],
                  !.order = SelectSeq(@, LAMBDA u : u \notin gone),
                  !.loop = Sleeping]

RECURSIVE ForUsers(_, _)
RECURSIVE Intervals(_, _, _)

\* the loop over the intervals for the user at hand, from the i-th on
Intervals(p, i, channel) ==
    IF i > Len(intervals)
    THEN ForUsers(p, channel)
    ELSE IF condition(i, p.loop.delta) /\ intervals[i].key \notin local_sent(p)
    THEN Notify(p, intervals[i].key, "interval", i)
    ELSE Intervals(p, i + 1, channel)

\* the loop over list(user_data.items()), up to the next await
ForUsers(p, channel) ==
    IF p.loop.todo = << >>
    THEN EndPass(p)
    ELSE LET user_id == Head(p.loop.todo)
             info == p.data[user_id][1]
             delta == p.loop.now - info.eta[1]
             q == [p EXCEPT !.loop.todo = Tail(@), !.loop.user = user_id,
                            !.loop.delta = delta, !.loop.detached = FALSE,
                            !.loop.keys = {}, !.loop.counts = NoSends]
             next == [p EXCEPT !.loop.todo = Tail(@)]
         IN  IF info.arrived
             THEN ForUsers(next, channel)
             ELSE IF channel = None \/ info.eta = None
             THEN ForUsers(next, channel)
             ELSE IF delta >= NoShowAfter /\ "no_show" \notin info.notifications_sent
             THEN Notify(q, "no_show", "no_show", 0)
             ELSE Intervals(q, 1, channel)

\* check_intervals goes on after the send
after_send(p, channel) ==
    IF p.loop.pc = "no_show"
    THEN ForUsers([p EXCEPT !.loop.to_remove = Append(@, p.loop.user)], channel)
    ELSE Intervals(p, p.loop.idx + 1, channel)

SetEta(u, ts) ==
    /\ proto.etas < MaxEtas
    /\ \E d \in { set_eta_proto(proto, u, ts) } : proto' = d
    /\ UNCHANGED << now, sessionDoc, statsDoc, last, outcome, taskVars, pollVars,
                    lockVars, diskVars >>

Ready(u) ==
    /\ \E d \in { ready(proto, u) } : proto' = d
    /\ UNCHANGED << now, sessionDoc, statsDoc, last, outcome, taskVars, pollVars,
                    lockVars, diskVars >>

VoiceJoin(u, channel) ==
    /\ \E d \in { on_voice_state_update(proto, u, channel) } : proto' = d
    /\ UNCHANGED << now, sessionDoc, statsDoc, last, outcome, taskVars, pollVars,
                    lockVars, diskVars >>

\* the sleep of check_intervals ends and a pass begins
PassStarts(channel) ==
    /\ proto.loop.pc = "sleep"
    /\ \E d \in { ForUsers([proto EXCEPT !.loop.now = now,
                                         !.loop.todo = proto.order], channel) } :
          proto' = d
    /\ UNCHANGED << now, sessionDoc, statsDoc, last, outcome, taskVars, pollVars,
                    lockVars, diskVars >>

\* channel.send returns, or raises what check_intervals logs
SendReturns(channel) ==
    /\ proto.loop.pc \in {"no_show", "interval"}
    /\ \E d \in { after_send(proto, channel) } : proto' = d
    /\ UNCHANGED << now, sessionDoc, statsDoc, last, outcome, taskVars, pollVars,
                    lockVars, diskVars >>

QUARTER == 15 * MINUTE

\* the steps of the prototype's clock: a minute from the hour, quarters of an
\* hour from there up to the last window, or a day from the minute past the hour
ProtoSteps == { MINUTE, QUARTER, DAY }

ProtoTickAllowed(d) ==
    LET offset == (now - StartNow) % DAY
    IN  \/ d = MINUTE /\ offset = 0
        \/ /\ d = QUARTER
           /\ now < StartNow + DAY
           /\ offset % QUARTER = MINUTE
           /\ offset + QUARTER <= intervals[Len(intervals)].hi * MINUTE
        \/ d = DAY /\ now = StartNow + MINUTE

ProtoTick(d) ==
    /\ ProtoTickAllowed(d)
    /\ now' = now + d
    /\ UNCHANGED << proto, sessionDoc, statsDoc, last, outcome, taskVars, pollVars,
                    lockVars, diskVars >>

InitProto ==
    /\ now = StartNow
    /\ sessionDoc = None
    /\ statsDoc = << >>
    /\ last = Call("start", 0, "", None, None, "none", None, << >>, FALSE, FALSE)
    /\ outcome = [u \in Users |-> "none"]
    /\ tasks = [t \in Tasks |-> IdleTask]
    /\ calls = 0
    /\ polls = [next |-> StartNow, returned |-> [u \in Users |-> 0]]
    /\ locks = [f \in Files |-> FreeLock]
    /\ disk = [f \in Files |-> NoWrite]
    /\ proto = [ data |-> [u \in Users |-> None], order |-> << >>,
                 loop |-> Sleeping, etas |-> 0, scored |-> [u \in Users |-> 0],
                 sends |-> [u \in Users |-> NoSends],
                 prev |-> [u \in Users |-> {}],
                 refused |-> 0 ]

NextProto ==
    \/ \E u \in Users, ts \in ProtoTimes : SetEta(u, ts)
    \/ \E u \in Users : Ready(u)
    \/ \E u \in Users, channel \in Channels : VoiceJoin(u, channel)
    \/ \E channel \in Channels : PassStarts(channel)
    \/ \E channel \in Channels : SendReturns(channel)
    \/ \E d \in ProtoSteps : ProtoTick(d)

SpecProto == InitProto /\ [][NextProto]_vars

\* ================================================================ properties
\* what the documents hold, as the properties below read them
SessionUsers(doc) ==
    IF doc = None THEN {} ELSE {IdOfKey(key) : key \in DOMAIN doc[1].users}

StoredEta(doc, u) == doc[1].users[KeyOf(u)]

\* a user's counters in the stats document, all 0 for a user without a record
Stat(sdoc, u) ==
    IF KeyOf(u) \in DOMAIN sdoc THEN sdoc[KeyOf(u)] ELSE NewUserStats(u, "")

\* the users a returned list names
ListedUsers(list) == {list[i].user_id : i \in 1 .. Len(list)}

\* ------------------------------------------------------------------------ C1
\* C1: after any sequence of calls, every record of the stats document has
\* total_sessions = on_time_arrivals + late_arrivals + no_shows.
StatsSumInvariant ==
    \A key \in DOMAIN statsDoc :
        statsDoc[key].total_sessions =
            statsDoc[key].on_time_arrivals + statsDoc[key].late_arrivals
                + statsDoc[key].no_shows

\* a user with an arrival and a no-show on record
StatsSumWitness ==
    \E key \in DOMAIN statsDoc :
        /\ statsDoc[key].no_shows >= 1
        /\ statsDoc[key].on_time_arrivals + statsDoc[key].late_arrivals >= 1

\* ------------------------------------------------------------------------ C2
\* C2: a mark_as_arrived for a user whose last declared ETA was already folded by a
\* successful mark_as_arrived (no record_eta by that user since) fails, and leaves
\* the session document and the stats document as they were.
SecondArrivalRejected ==
    [][ (last'.op = "mark_as_arrived" /\ outcome[last'.user] = "arrived")
          => /\ last'.err # "none"
             /\ sessionDoc' = sessionDoc
             /\ statsDoc' = statsDoc ]_vars

\* the second of two consecutive arrivals of a user has failed; one outcome is counted
SecondArrivalWitness ==
    /\ last.op = "mark_as_arrived"
    /\ last.repeat
    /\ last.err # "none"
    /\ Stat(statsDoc, last.user).total_sessions = 1

\* ------------------------------------------------------------------------ C3
\* C3: a mark_as_arrived for a user who has arrived, or whose ETA was expired, in
\* the current session (and who declared no ETA since) raises UserStateError.
RepeatedArrivalIsInvalidState ==
    [][ (/\ last'.op = "mark_as_arrived"
         /\ sessionDoc # None
         /\ outcome[last'.user] \in {"arrived", "expired"})
          => last'.err = "UserStateError" ]_vars

\* ------------------------------------------------------------------------ C4
\* C4: record_eta with minutes >= 0 (and no time of day) succeeds and stores an
\* Expected UserETA with arrival_timestamp = command_timestamp + minutes.
MinutesEtaStored ==
    (last.op = "record_eta" /\ last.minutes # None /\ last.time_str = None)
      => /\ last.err = "none"
         /\ last.eta # None
         /\ last.eta[1].status = "EXPECTED"
         /\ last.eta[1].arrival_timestamp =
                last.eta[1].command_timestamp + last.minutes[1] * MINUTE
         /\ last.user \in SessionUsers(sessionDoc)
         /\ StoredEta(sessionDoc, last.user).status = "Expected"
         /\ StoredEta(sessionDoc, last.user).arrival_timestamp =
                StoredEta(sessionDoc, last.user).command_timestamp
                    + last.minutes[1] * MINUTE

\* ------------------------------------------------------------------------ C5
\* the instant of a time of day on the day of instant t
OnDayOf(t, hm) == (t \div DAY) * DAY + hm[1] * HOUR + hm[2] * MINUTE

\* a record_eta that was given a time of day only and has just returned
TimeOfDayCall ==
    /\ last.op = "record_eta"
    /\ last.minutes = None
    /\ last.time_str # None
    /\ last.err = "none"

ExactlyOneTimeSpec ==
    [][ last'.op = "record_eta"
          => LET both == last'.minutes # None /\ last'.time_str # None
                 neither == last'.minutes = None /\ last'.time_str = None
             IN  /\ last'.err = "none" => (~ both /\ ~ neither)
                 /\ (both \/ neither)
                      => (last'.err = "ValueError" /\ sessionDoc' = sessionDoc) ]_vars

\* C6 as amended: a request giving neither raises ValueError and stores nothing; a
\* request giving both is accepted and stores an Expected UserETA, whose deadline
\* comes from the minutes when they are not 0.
NeitherTimeSpecRejected ==
    [][ last'.op = "record_eta"
          => LET both == last'.minutes # None /\ last'.time_str # None
                 neither == last'.minutes = None /\ last'.time_str = None
             IN  /\ neither => (last'.err = "ValueError" /\ sessionDoc' = sessionDoc)
                 /\ both =>
                      /\ last'.err = "none"
                      /\ last'.user \in SessionUsers(sessionDoc')
                      /\ StoredEta(sessionDoc', last'.user).status = "Expected"
                      /\ last'.minutes[1] # 0 =>
                           StoredEta(sessionDoc', last'.user).arrival_timestamp =
                               now + last'.minutes[1] * MINUTE ]_vars

\* a request giving both minutes and a time of day was accepted
BothTimeSpecsWitness ==
    /\ last.op = "record_eta"
    /\ last.minutes # None
    /\ last.time_str # None
    /\ last.err = "none"
    /\ last.user \in SessionUsers(sessionDoc)

\* ------------------------------------------------------------------------ C7
\* the users of a session document that are Expected and past the expiration
\* threshold at instant t
Overdue(doc, t) ==
    { u \in SessionUsers(doc) :
        /\ StoredEta(doc, u).status = "Expected"
        /\ t > StoredEta(doc, u).arrival_timestamp + ETA_EXPIRATION_MINUTES * MINUTE }

\* C7: check_and_expire_etas returns exactly the stored users that are Expected with
\* now > arrival_timestamp + ETA_EXPIRATION_MINUTES, each once; each of them gets
\* no_shows + 1 and total_sessions + 1 and leaves the session; every other user keeps
\* the same entry in the session and the same stats.
ExpiresExactlyOverdue ==
    [][ last'.op = "check_and_expire_etas"
          => LET overdue == Overdue(sessionDoc, now)
             IN  /\ ListedUsers(last'.list) = overdue
                 /\ Len(last'.list) = Cardinality(overdue)
                 /\ \A u \in overdue :
                      /\ Stat(statsDoc', u).no_shows = Stat(statsDoc, u).no_shows + 1
                      /\ Stat(statsDoc', u).total_sessions
                             = Stat(statsDoc, u).total_sessions + 1
                      /\ Stat(statsDoc', u).on_time_arrivals
                             = Stat(statsDoc, u).on_time_arrivals
                      /\ Stat(statsDoc', u).late_arrivals = Stat(statsDoc, u).late_arrivals
                      /\ Stat(statsDoc', u).total_lateness_seconds
                             = Stat(statsDoc, u).total_lateness_seconds
                      /\ u \notin SessionUsers(sessionDoc')
                 /\ \A u \in SessionUsers(sessionDoc) \ overdue :
                      /\ u \in SessionUsers(sessionDoc')
                      /\ StoredEta(sessionDoc', u) = StoredEta(sessionDoc, u)
                      /\ StoredEta(sessionDoc', u).status = "Expected"
                 /\ \A u \in Users \ overdue : Stat(statsDoc', u) = Stat(statsDoc, u) ]_vars

\* a scan has expired somebody and left in the session a user exactly at the threshold
ExpiryAtThresholdWitness ==
    /\ last.op = "check_and_expire_etas"
    /\ last.list # << >>
    /\ \E u \in SessionUsers(sessionDoc) :
          now = StoredEta(sessionDoc, u).arrival_timestamp + ETA_EXPIRATION_MINUTES * MINUTE

\* ------------------------------------------------------------------------ C8
\* C8: a check_and_expire_etas right after another one, no time passing in between,
\* returns the empty list and changes neither document.
SecondScanExpiresNothing ==
    [][ (last.op = "check_and_expire_etas" /\ last'.op = "check_and_expire_etas")
          => /\ last'.list = << >>
             /\ sessionDoc' = sessionDoc
             /\ statsDoc' = statsDoc ]_vars

\* the second of two consecutive scans has returned nothing, the first having expired
\* a user who then has one no-show
SecondScanWitness ==
    /\ last.op = "check_and_expire_etas"
    /\ last.repeat
    /\ last.list = << >>
    /\ \E u \in Users : outcome[u] = "expired" /\ Stat(statsDoc, u).no_shows = 1

\* ------------------------------------------------------------------------ C9
\* C9: archive_session_if_inactive clears the session document and returns true iff
\* a session is stored, it has no users and now > last_activity_time +
\* SESSION_INACTIVITY_TIMEOUT_HOURS; otherwise it returns false and the session
\* document stays as it was.
ArchivesOnlyEmptyIdle ==
    [][ last'.op = "archive_session_if_inactive"
          => LET due == /\ sessionDoc # None
                        /\ SessionUsers(sessionDoc) = {}
                        /\ now > sessionDoc[1].last_activity_time
                                   + SESSION_INACTIVITY_TIMEOUT_HOURS * HOUR
             IN  /\ last'.flag <=> due
                 /\ due => sessionDoc' = None
                 /\ ~ due => sessionDoc' = sessionDoc
                 /\ statsDoc' = statsDoc ]_vars

\* an archival has just cleared the session
ArchivedWitness ==
    /\ last.op = "archive_session_if_inactive"
    /\ last.flag
    /\ sessionDoc = None

\* ----------------------------------------------------------------------- C10
\* C10: a successful mark_as_arrived adds 1 to total_sessions and to exactly one of
\* on_time_arrivals (arrival instant <= arrival_timestamp) and late_arrivals (arrival
\* instant > arrival_timestamp); total_lateness_seconds grows by the whole seconds of
\* lateness in the late case only; no_shows is unchanged; the user leaves the session.
ArrivalFoldedOnce ==
    [][ (last'.op = "mark_as_arrived" /\ last'.err = "none")
          => LET u == last'.user
                 deadline == StoredEta(sessionDoc, u).arrival_timestamp
                 before == Stat(statsDoc, u)
                 after == Stat(statsDoc', u)
             IN  /\ after.total_sessions = before.total_sessions + 1
                 /\ after.no_shows = before.no_shows
                 /\ now <= deadline =>
                      /\ after.on_time_arrivals = before.on_time_arrivals + 1
                      /\ after.late_arrivals = before.late_arrivals
                      /\ after.total_lateness_seconds = before.total_lateness_seconds
                 /\ now > deadline =>
                      /\ after.late_arrivals = before.late_arrivals + 1
                      /\ after.on_time_arrivals = before.on_time_arrivals
                      /\ after.total_lateness_seconds =
                             before.total_lateness_seconds + (now - deadline) \div SECOND
                 /\ u \notin SessionUsers(sessionDoc') ]_vars

\* a user has arrived late by more than a second and not by a whole number of seconds
LateArrivalWitness ==
    /\ last.op = "mark_as_arrived"
    /\ last.err = "none"
    /\ now - last.eta[1].arrival_timestamp > SECOND
    /\ (now - last.eta[1].arrival_timestamp) % SECOND # 0
    /\ Stat(statsDoc, last.user).late_arrivals >= 1
    /\ Stat(statsDoc, last.user).total_lateness_seconds >= 1

\* ----------------------------------------------------------------------- C11
\* C11: when a record_eta with minutes = 0 (and no time of day) is followed, with no
\* time passing, by a mark_as_arrived of the same user, both calls succeed, the
\* arrival is not late and the user's on_time_arrivals grows by 1.
ZeroMinutesThenArrive ==
    [][ (/\ last.op = "record_eta"
         /\ last.minutes = Some(0)
         /\ last.time_str = None
         /\ last'.op = "mark_as_arrived"
         /\ last'.user = last.user)
          => /\ last.err = "none"
             /\ last'.err = "none"
             /\ ~ is_late(last'.eta[1])
             /\ Stat(statsDoc', last.user).on_time_arrivals
                    = Stat(statsDoc, last.user).on_time_arrivals + 1 ]_vars

\* ----------------------------------------------------------------------- C12
\* C12: a mark_as_arrived raises KeyError when no session is stored, and when the
\* stored session has no entry for the user; both documents stay as they were.
ArrivalWithoutEtaNotFound ==
    [][ (/\ last'.op = "mark_as_arrived"
         /\ (sessionDoc = None \/ last'.user \notin SessionUsers(sessionDoc)))
          => /\ last'.err = "KeyError"
             /\ sessionDoc' = sessionDoc
             /\ statsDoc' = statsDoc ]_vars

\* an arrival was refused for a user without an entry in a stored session that has
\* an entry for somebody else
ArrivalWithoutEtaWitness ==
    /\ last.op = "mark_as_arrived"
    /\ last.err = "KeyError"
    /\ sessionDoc # None
    /\ SessionUsers(sessionDoc) # {}
    /\ last.user \notin SessionUsers(sessionDoc)

\* ----------------------------------------------------------------------- C13
\* C13: in every reachable state, those reached by tasks interleaving at their
\* storage calls included, every UserETA of the session document has status
\* Expected: no Arrived and no Expired record is ever written.
StoredOnlyExpected ==
    sessionDoc # None
      => \A key \in DOMAIN sessionDoc[1].users :
            sessionDoc[1].users[key].status = "Expected"

\* the session document holds a user while one task, having folded an arrival, is
\* about to save its session and another holds a record it has just expired
OutcomesInMemoryWitness ==
    /\ SessionUsers(sessionDoc) # {}
    /\ \E t \in Tasks :
          /\ tasks[t].op = "mark_as_arrived"
          /\ tasks[t].pc = "save_session"
          /\ tasks[t].user_eta[1].status = "ARRIVED"
    /\ \E t \in Tasks :
          /\ tasks[t].op = "check_and_expire_etas"
          /\ tasks[t].pc = "get_all_stats"
          /\ tasks[t].session[1].users[tasks[t].user_id].status = "EXPIRED"

\* ----------------------------------------------------------------------- C14
\* actual_arrival_time is set on a UserETA exactly when its status is Arrived
Stamped(eta) == (eta.actual_arrival_time # None) <=> (eta.status = "ARRIVED")

\* the UserETA objects a task holds: the users of its session, the record it is
\* folding, the records it has expired
TaskEtas(t) ==
    (IF tasks[t].session = None
     THEN {}
     ELSE {tasks[t].session[1].users[u] : u \in DOMAIN tasks[t].session[1].users})
    \cup (IF tasks[t].user_eta = None THEN {} ELSE {tasks[t].user_eta[1]})
    \cup {tasks[t].expired_users_info[i] : i \in 1 .. Len(tasks[t].expired_users_info)}

\* the same of the records of the session document
StoredStamped ==
    sessionDoc # None
      => \A key \in DOMAIN sessionDoc[1].users :
            (sessionDoc[1].users[key].actual_arrival_time # None)
                <=> (sessionDoc[1].users[key].status = "Arrived")

\* C14 as claimed: at every point of every operation, every UserETA, in memory or
\* stored, has actual_arrival_time set if and only if its status is Arrived.
ArrivalTimeIffArrived ==
    /\ StoredStamped
    /\ \A t \in Tasks : \A eta \in TaskEtas(t) : Stamped(eta)

\* C14 as amended: the same wherever an operation is suspended at a storage call
\* or has returned; inside Session.mark_arrived the status is assigned one
\* statement before the arrival instant.
ArrivalTimeIffArrivedAtRest ==
    /\ StoredStamped
    /\ \A t \in Tasks :
          tasks[t].pc # "mark_arrived" => \A eta \in TaskEtas(t) : Stamped(eta)

\* one task is suspended holding an Arrived record with its arrival instant while
\* another is inside mark_arrived, its record Arrived and the instant not yet set
ArrivedUnstampedWitness ==
    /\ \E t \in Tasks :
          /\ tasks[t].pc = "save_stats"
          /\ tasks[t].op = "mark_as_arrived"
          /\ tasks[t].user_eta[1].status = "ARRIVED"
          /\ tasks[t].user_eta[1].actual_arrival_time # None
    /\ \E t \in Tasks :
          /\ tasks[t].pc = "mark_arrived"
          /\ tasks[t].user_eta[1].status = "ARRIVED"
          /\ tasks[t].user_eta[1].actual_arrival_time = None

\* ----------------------------------------------------------------------- C15
\* the status of a record a task holds through a step of its call stays, or leaves
\* Expected for Arrived or Expired
StatusStep(a, b) == a = b \/ (a = "EXPECTED" /\ b \in {"ARRIVED", "EXPIRED"})

\* C15: a record's status only moves Expected -> Arrived or Expected -> Expired, no
\* step changes the status of an Arrived or Expired record, and a user whose ETA
\* has ended Arrived or Expired is in the stored session again only by the save of
\* a new record_eta of that user.
StatusOnlyLeavesExpected ==
    [][ /\ \A t \in Tasks :
              (tasks[t].session # None /\ tasks'[t].session # None)
                => \A u \in DOMAIN tasks[t].session[1].users
                            \cap DOMAIN tasks'[t].session[1].users :
                      StatusStep(tasks[t].session[1].users[u].status,
                                 tasks'[t].session[1].users[u].status)
        /\ \A u \in Users :
              (/\ outcome[u] \in {"arrived", "expired"}
               /\ u \notin SessionUsers(sessionDoc)
               /\ u \in SessionUsers(sessionDoc'))
                => \E t \in Tasks :
                      /\ tasks[t].op = "record_eta"
                      /\ tasks[t].user_id = u
                      /\ tasks[t].pc = "save_session"
                      /\ tasks'[t].pc = "idle" ]_vars

\* ----------------------------------------------------------------------- C16
\* C16: check_for_late_users returns exactly the users of the stored session that
\* are Expected with now - 1 minute < arrival_timestamp <= now, each once and as
\* stored, and the empty list when no session is stored.
LateUsersInWindow ==
    [][ last'.op = "check_for_late_users"
          => LET due == { u \in SessionUsers(sessionDoc) :
                            /\ StoredEta(sessionDoc, u).status = "Expected"
                            /\ now - MINUTE < StoredEta(sessionDoc, u).arrival_timestamp
                            /\ StoredEta(sessionDoc, u).arrival_timestamp <= now }
             IN  /\ ListedUsers(last'.list) = due
                 /\ Len(last'.list) = Cardinality(due)
                 /\ \A i \in 1 .. Len(last'.list) :
                       /\ last'.list[i].status = "EXPECTED"
                       /\ last'.list[i].arrival_timestamp
                              = StoredEta(sessionDoc, last'.list[i].user_id).arrival_timestamp
                 /\ sessionDoc = None => last'.list = << >>
                 /\ sessionDoc' = sessionDoc
                 /\ statsDoc' = statsDoc ]_vars

\* a run has returned only a user whose deadline is the current instant, while the
\* session holds a user whose deadline is exactly one minute before it
WindowEdgesWitness ==
    /\ last.op = "check_for_late_users"
    /\ Len(last.list) = 1
    /\ last.list[1].arrival_timestamp = now
    /\ \E u \in SessionUsers(sessionDoc) :
          StoredEta(sessionDoc, u).arrival_timestamp = now - MINUTE

\* ----------------------------------------------------------------------- C17
\* the instant of the first run of check_lateness_task at or after instant d, the
\* runs being at StartNow and every minute from it
FirstPollAtOrAfter(d) ==
    LET past == (d - StartNow) % MINUTE
    IN  IF past = 0 THEN d ELSE d + (MINUTE - past)

\* the run due at instant p has taken place
Polled(p) == p < polls.next

\* C17: with the runs of check_for_late_users exactly a minute apart, an ETA whose
\* deadline is not before its declaration, while it stays in the session, is
\* returned by no run before the first run at or after its deadline, by that run,
\* and by no run after it: by exactly one run once that run has taken place.
NoticeExactlyOnce ==
    /\ [] (\A u \in SessionUsers(sessionDoc) :
              LET eta == StoredEta(sessionDoc, u)
                  first == FirstPollAtOrAfter(eta.arrival_timestamp)
              IN  eta.command_timestamp <= eta.arrival_timestamp
                    => /\ polls.returned[u] <= 1
                       /\ ~ Polled(first) => polls.returned[u] = 0
                       /\ (Polled(first) /\ eta.command_timestamp < first)
                            => polls.returned[u] = 1)
    /\ [][ last'.op = "check_for_late_users"
             => \A u \in SessionUsers(sessionDoc) :
                   LET eta == StoredEta(sessionDoc, u)
                   IN  eta.command_timestamp <= eta.arrival_timestamp
                         => ((FirstPollAtOrAfter(eta.arrival_timestamp) = now)
                               <=> (u \in ListedUsers(last'.list))) ]_vars

\* an ETA whose deadline was the instant of a run has been returned once, and the
\* run a minute after its deadline has taken place
NoticeOnceWitness ==
    \E u \in SessionUsers(sessionDoc) :
        /\ polls.returned[u] = 1
        /\ FirstPollAtOrAfter(StoredEta(sessionDoc, u).arrival_timestamp)
               = StoredEta(sessionDoc, u).arrival_timestamp
        /\ Polled(StoredEta(sessionDoc, u).arrival_timestamp + MINUTE)

\* ----------------------------------------------------------------------- C18
\* x and y are the same number
QuotientSame(x, y) == x[1] * y[2] = y[1] * x[2]

\* C18: get_leaderboard returns every record of the stats document exactly once,
\* by no_shows ascending, then by on_time_percentage descending, then by
\* average_lateness_seconds ascending; a user with fewer no-shows comes before a
\* user with more, whatever their on-time percentages.
LeaderboardOrdered ==
    last.op = "get_leaderboard"
      => LET board == last.list
         IN  /\ Len(board) = Cardinality(DOMAIN statsDoc)
             /\ \A key \in DOMAIN statsDoc :
                   Cardinality({i \in 1 .. Len(board) : board[i] = statsDoc[key]
                                   /\ KeyOf(board[i].user_id) = key}) = 1
             /\ \A i, j \in 1 .. Len(board) :
                   i < j
                     => /\ board[i].no_shows <= board[j].no_shows
                        /\ board[i].no_shows = board[j].no_shows
                             => /\ ~ QuotientLess(on_time_percentage(board[i]),
                                                  on_time_percentage(board[j]))
                                /\ QuotientSame(on_time_percentage(board[i]),
                                                on_time_percentage(board[j]))
                                     => average_lateness_seconds(board[i])
                                            <= average_lateness_seconds(board[j])
             /\ \A i, j \in 1 .. Len(board) :
                   board[i].no_shows < board[j].no_shows => i < j

\* a leaderboard of three users: the first has fewer no-shows and a lower on-time
\* percentage than the second; the last two tie but for their average lateness
LeaderboardWitness ==
    /\ last.op = "get_leaderboard"
    /\ Len(last.list) = 3
    /\ last.list[1].no_shows < last.list[2].no_shows
    /\ QuotientLess(on_time_percentage(last.list[1]), on_time_percentage(last.list[2]))
    /\ last.list[2].no_shows = last.list[3].no_shows
    /\ QuotientSame(on_time_percentage(last.list[2]), on_time_percentage(last.list[3]))
    /\ average_lateness_seconds(last.list[2]) < average_lateness_seconds(last.list[3])

\* ----------------------------------------------------------------------- C19
\* C19: a successful record_eta for a user who already has an entry in the session
\* replaces that entry by a fresh Expected record (command_timestamp the instant of
\* the call, the deadline the call returned, no actual_arrival_time), leaves every
\* other user's entry as it was, and leaves the stats document as it was.
RedeclareOverwritesOnlyOwnEntry ==
    [][ (/\ last'.op = "record_eta"
         /\ last'.err = "none"
         /\ last'.user \in SessionUsers(sessionDoc))
          => /\ statsDoc' = statsDoc
             /\ SessionUsers(sessionDoc') = SessionUsers(sessionDoc)
             /\ \A v \in SessionUsers(sessionDoc) \ {last'.user} :
                   StoredEta(sessionDoc', v) = StoredEta(sessionDoc, v)
             /\ LET eta == StoredEta(sessionDoc', last'.user)
                IN  /\ eta.status = "Expected"
                    /\ eta.command_timestamp = now
                    /\ eta.arrival_timestamp = last'.eta[1].arrival_timestamp
                    /\ eta.actual_arrival_time = None
                    /\ eta.user_id = last'.user ]_vars

\* a user declared an ETA twice in a row, in a session that began at an earlier
\* instant and holds another user's entry
RedeclareWitness ==
    /\ last.op = "record_eta"
    /\ last.repeat
    /\ last.err = "none"
    /\ SessionUsers(sessionDoc) \ {last.user} # {}
    /\ StoredEta(sessionDoc, last.user).command_timestamp = now
    /\ sessionDoc[1].start_time < now

\* ----------------------------------------------------------------------- C20
\* C20: with the calls running one after another, a successful record_eta or
\* mark_as_arrived leaves the stored session with last_activity_time equal to the
\* instant of the call; every other step (check_and_expire_etas, check_for_late_users,
\* a failed call, the passing of time) leaves the last_activity_time of a session
\* that stays stored as it was; and it never decreases while a session stays stored.
ActivityTimeFollowsMutations ==
    [][ /\ (/\ last'.op \in {"record_eta", "mark_as_arrived"}
            /\ last'.err = "none")
          => /\ sessionDoc' # None
             /\ sessionDoc'[1].last_activity_time = now
        /\ (/\ ~ (last'.op \in {"record_eta", "mark_as_arrived"} /\ last'.err = "none")
            /\ sessionDoc # None
            /\ sessionDoc' # None)
          => sessionDoc'[1].last_activity_time = sessionDoc[1].last_activity_time
        /\ (sessionDoc # None /\ sessionDoc' # None)
          => sessionDoc'[1].last_activity_time >= sessionDoc[1].last_activity_time
        /\ (sessionDoc = None /\ sessionDoc' # None)
          => (last'.op = "record_eta" /\ last'.err = "none") ]_vars

\* an expiry scan has expired a user and saved the session, another user's entry
\* remains, and the last activity of the session lies in the past
ActivityTimeWitness ==
    /\ last.op = "check_and_expire_etas"
    /\ last.list # << >>
    /\ SessionUsers(sessionDoc) # {}
    /\ sessionDoc[1].last_activity_time < now

\* ----------------------------------------------------------------------- C21
\* a session file that is there and holds no session: it cannot be read or decoded,
\* or what it holds is empty or fails the schema
Damaged(file) ==
    /\ file # None
    /\ \/ Len(file) = 2
       \/ DOMAIN file[1] = {}
       \/ \E key \in DOMAIN file[1].users : file[1].users[key].status \notin StatusValues

\* C21: with a session file that is unreadable or fails validation, get_session_status
\* returns null, check_for_late_users and check_and_expire_etas return empty lists,
\* archive_session_if_inactive returns false and mark_as_arrived raises KeyError; none
\* of them raises anything else, and none writes to either file.
DamagedSessionIsAbsent ==
    [][ (/\ Damaged(sessionDoc)
         /\ last'.op \in {"get_session_status", "check_for_late_users",
                          "check_and_expire_etas", "archive_session_if_inactive",
                          "mark_as_arrived"})
          => /\ sessionDoc' = sessionDoc
             /\ statsDoc' = statsDoc
             /\ last'.op = "mark_as_arrived" => last'.err = "KeyError"
             /\ last'.op # "mark_as_arrived" => last'.err = "none"
             /\ last'.eta = None
             /\ last'.list = << >>
             /\ last'.flag = FALSE ]_vars

\* ----------------------------------------------------------------------- C22
\* C22: get_session_status, get_user_stats, get_leaderboard and check_for_late_users
\* write nothing: after each of them the session file and the stats file hold
\* exactly what they held before the call.
QueriesReadOnly ==
    [][ last'.op \in {"get_session_status", "get_user_stats", "get_leaderboard",
                      "check_for_late_users"}
          => /\ sessionDoc' = sessionDoc
             /\ statsDoc' = statsDoc ]_vars

\* check_for_late_users has returned a user who has just become late, from a
\* session of two users, with a record in the stats file
QueriesWitness ==
    /\ last.op = "check_for_late_users"
    /\ last.list # << >>
    /\ sessionDoc = Some(DeclaredDoc(Users))
    /\ statsDoc # << >>

\* ----------------------------------------------------------------------- C23
\* C23: a record_eta that is given neither minutes nor a time of day raises
\* ValueError and writes nothing: the session file is as it was, and when there was
\* none before the call there is none after it.
NeitherGivenStoresNothing ==
    [][ (/\ last'.op = "record_eta"
         /\ last'.minutes = None
         /\ last'.time_str = None)
          => /\ last'.err = "ValueError"
             /\ last'.eta = None
             /\ sessionDoc' = sessionDoc
             /\ sessionDoc = None => sessionDoc' = None ]_vars

\* the call was made with no session stored, has raised, and no session is stored
NeitherGivenWitness ==
    /\ last.op = "record_eta"
    /\ last.minutes = None
    /\ last.time_str = None
    /\ last.err = "ValueError"
    /\ sessionDoc = None

\* ----------------------------------------------------------------------- C24
\* the users whose outcome a call has folded: the user of a successful
\* mark_as_arrived, the users check_and_expire_etas returns
FoldedBy(call) ==
    IF call.op = "mark_as_arrived" /\ call.err = "none"
    THEN {call.user}
    ELSE IF call.op = "check_and_expire_etas"
    THEN ListedUsers(call.list)
    ELSE {}

\* C24: with the calls running one after another over files that read back, a
\* record of the stats file is never removed, none of its counters ever gets
\* smaller, and a call leaves the record of every user whose outcome it does not
\* fold exactly as it was.
StatsOnlyGrow ==
    [][ \A key \in DOMAIN statsDoc :
          /\ key \in DOMAIN statsDoc'
          /\ statsDoc'[key].total_sessions >= statsDoc[key].total_sessions
          /\ statsDoc'[key].on_time_arrivals >= statsDoc[key].on_time_arrivals
          /\ statsDoc'[key].late_arrivals >= statsDoc[key].late_arrivals
          /\ statsDoc'[key].total_lateness_seconds >= statsDoc[key].total_lateness_seconds
          /\ statsDoc'[key].no_shows >= statsDoc[key].no_shows
          /\ IdOfKey(key) \notin FoldedBy(last') => statsDoc'[key] = statsDoc[key] ]_vars

\* an arrival has been folded for one user while the other user has a record of
\* an earlier outcome
StatsOnlyGrowWitness ==
    /\ last.op = "mark_as_arrived"
    /\ last.err = "none"
    /\ \E u \in Users \ {last.user} : Stat(statsDoc, u).total_sessions >= 1
    /\ Stat(statsDoc, last.user).total_sessions >= 1

\* ----------------------------------------------------------------------- C25
\* the UserETA the session file holds for a user, as get_session rebuilds it
LoadedEta(u) == get_session(sessionDoc)[1].users[u]

\* C25: for a UserETA that stays as it is (Expected, the same arrival_timestamp)
\* while the clock moves on, should_expire, once true, is true at every later
\* instant.
ShouldExpireStaysTrue ==
    [][ \A u \in SessionUsers(sessionDoc) \cap SessionUsers(sessionDoc') :
          (/\ LoadedEta(u)' = LoadedEta(u)
           /\ should_expire(LoadedEta(u)))
            => should_expire(LoadedEta(u))' ]_vars

\* the clock has moved on by an hour over an ETA that could already expire
ShouldExpireWitness ==
    /\ last.op = "tick"
    /\ \E u \in SessionUsers(sessionDoc) :
          /\ should_expire(LoadedEta(u))
          /\ now - HOUR > LoadedEta(u).arrival_timestamp + ETA_EXPIRATION_MINUTES * MINUTE

\* ----------------------------------------------------------------------- C26
\* task t has folded an arrival of the ETA and is at its save_session
ArrivalFolded(t, eta) ==
    /\ tasks[t].op = "mark_as_arrived"
    /\ tasks[t].pc = "save_session"
    /\ tasks[t].user_eta[1].user_id = eta.user_id
    /\ tasks[t].user_eta[1].command_timestamp = eta.command_timestamp

\* task t, a scan, has folded a no-show of the ETA and not yet returned
NoShowFolded(t, eta) ==
    /\ tasks[t].op = "check_and_expire_etas"
    /\ tasks[t].pc = "save_session"
    /\ \E i \in 1 .. Len(tasks[t].expired_users_info) :
          /\ tasks[t].expired_users_info[i].user_id = eta.user_id
          /\ tasks[t].expired_users_info[i].command_timestamp = eta.command_timestamp

\* C26: however mark_as_arrived and check_and_expire_etas interleave at their
\* storage calls, one declared ETA is folded into the stats at most once: never
\* both as an arrival and as a no-show.
OneEtaOneOutcome ==
    \A t1, t2 \in Tasks :
        ~ (/\ tasks[t1].op = "mark_as_arrived"
           /\ tasks[t1].pc = "save_session"
           /\ NoShowFolded(t2, tasks[t1].user_eta[1]))

\* ----------------------------------------------------------------------- C27
\* C27: when calls that fold outcomes of different users interleave at their
\* storage calls, no fold is lost: every user whose ETA has been folded as arrived
\* or expired has it in the record the stats file holds for them.
NoFoldLost ==
    \A u \in Users :
        outcome[u] \in {"arrived", "expired"}
          => Stat(statsDoc, u).total_sessions >= 1

\* ----------------------------------------------------------------------- C28
\* C28: once the calls have returned, a user whose ETA has ended as arrived or
\* expired, and who has declared none since, is not in the stored session: no call
\* that loaded the session before the removal writes the removed user back.
RemovedStaysRemoved ==
    (\A t \in Tasks : tasks[t].pc = "idle")
      => \A u \in Users :
            outcome[u] \in {"arrived", "expired"} => u \notin SessionUsers(sessionDoc)

\* ----------------------------------------------------------------------- C30
\* C30: when two mark_as_arrived of one user for one declared ETA interleave at
\* their storage calls, at most one of them succeeds: never have two tasks both
\* passed mark_arrived for the same ETA and folded its arrival.
OneArrivalPerEta ==
    \A t1, t2 \in Tasks :
        (t1 # t2 /\ tasks[t1].op = "mark_as_arrived" /\ tasks[t1].pc = "save_session")
          => ~ ArrivalFolded(t2, tasks[t1].user_eta[1])

\* C29: the session file is removed only when the stored session holds no user,
\* also when the archival round and record_eta run side by side.
ClearedOnlyWhenEmpty ==
    [][ (sessionDoc # None /\ sessionDoc' = None) => SessionUsers(sessionDoc) = {} ]_vars

\* ----------------------------------------------------------------------- C31
\* task t waits for the lock of file f
Waiting(t, f) ==
    \E i \in 1 .. Len(locks[f].waiters) : locks[f].waiters[i] = t

\* task t is inside the body of a storage call on file f: it runs a storage call
\* on f and does not wait for the lock
Inside(t, f) ==
    /\ tasks[t].pc # "idle"
    /\ FileOf(tasks[t].pc) = f
    /\ ~ Waiting(t, f)

\* at most one task is inside the storage calls of a file, and its lock is held
\* by nobody but that task
OneTaskInside ==
    \A f \in Files :
        /\ Cardinality({t \in Tasks : Inside(t, f)}) <= 1
        /\ locks[f].holder # 0 => Inside(locks[f].holder, f)

\* C31: for each repository at most one task at a time is inside _read_file,
\* _write_file or _clear_file, and the lock is released on every way out (return,
\* missing file, file without content, IOError, decode error), so that a task
\* that waits for the lock does not wait forever.
LockExclusiveAndReleased ==
    /\ [] OneTaskInside
    /\ \A t \in Tasks, f \in Files : Waiting(t, f) ~> ~ Waiting(t, f)

\* a task waits for the session lock while another reads a session file that is
\* not UTF-8
LockWitness ==
    \E t1, t2 \in Tasks :
        /\ Inside(t1, "session")
        /\ locks["session"].io
        /\ Waiting(t2, "session")
        /\ sessionDoc = Unreadable(NotUtf8)

\* ----------------------------------------------------------------------- C35
\* the users whose outcome the call of task t has folded into the stats
FoldedByTask(t) ==
    IF tasks[t].op = "mark_as_arrived"
    THEN {tasks[t].user_id}
    ELSE {tasks[t].expired_users_info[i].user_id :
             i \in 1 .. Len(tasks[t].expired_users_info)}

\* C35: also when a write fails and the failure is absorbed, a call that has
\* folded a user's outcome into the stats does not return with that user still in
\* the stored session, where a later arrival or expiry would fold the ETA again.
FoldedLeavesSession ==
    [][ \A t \in Tasks :
          (/\ tasks[t].op \in {"mark_as_arrived", "check_and_expire_etas"}
           /\ tasks[t].pc = "save_session"
           /\ tasks'[t].pc = "idle")
            => FoldedByTask(t) \cap SessionUsers(sessionDoc') = {} ]_vars

\* ----------------------------------------------------------------------- C36
\* C36: also when the stats file could not be read, the save_stats of a call
\* that folds one user's outcome leaves every other user's record in the stats
\* file as it was.
FoldKeepsOtherRecords ==
    [][ \A t \in Tasks :
          (tasks[t].pc = "save_stats" /\ tasks'[t].pc # "save_stats")
            => \A u \in Users \ {tasks[t].user_id} :
                  KeyOf(u) \in DOMAIN statsDoc
                    => (KeyOf(u) \in DOMAIN statsDoc'
                          /\ statsDoc'[KeyOf(u)] = statsDoc[KeyOf(u)]) ]_vars

\* ----------------------------------------------------------------------- C32
\* C32: whatever IOError or crash interrupts _write_file, the file of a
\* repository only ever changes from the document it held to the whole document
\* being written, and when _write_file returns the temporary file it made is gone.
WriteIsAtomic ==
    [][ \A f \in Files :
          /\ PathOf(f)' # PathOf(f)
               => (disk[f].data # None /\ PathOf(f)' = Whole(f, disk[f].data[1]))
          /\ (disk[f].at = "finally" /\ disk'[f].at = "idle"
                /\ disk'[f].left = disk[f].left)
               => disk'[f].temp = None ]_vars

\* after a crash has left a temporary file behind, a write of the session that an
\* IOError cut short is about to return: its own temporary file, cut, is still
\* there, and the session file is the document it was
WriteWitness ==
    /\ disk["session"].left > 0
    /\ disk["session"].at = "finally"
    /\ disk["session"].temp # None
    /\ disk["session"].temp[1].part = "some"
    /\ sessionDoc = Some(DeclaredDoc({}))

\* ----------------------------------------------------------------------- C33
\* C33: with time advancing and the expiry round coming again and again, every
\* user in the stored session eventually leaves it; and a user whom a round takes
\* out of the session is returned by that round and gets exactly one no-show.
EveryEtaLeaves ==
    /\ \A u \in Users :
          (u \in SessionUsers(sessionDoc)) ~> (u \notin SessionUsers(sessionDoc))
    /\ [][ last'.op = "check_and_expire_etas"
             => \A u \in SessionUsers(sessionDoc) \ SessionUsers(sessionDoc') :
                   /\ u \in ListedUsers(last'.list)
                   /\ Stat(statsDoc', u).no_shows = Stat(statsDoc, u).no_shows + 1
                   /\ Stat(statsDoc', u).total_sessions
                        = Stat(statsDoc, u).total_sessions + 1 ]_vars

\* a round has returned a user who declared an ETA and never arrived, and the
\* user has one no-show
EveryEtaLeavesWitness ==
    /\ last.op = "check_and_expire_etas"
    /\ 1 \in ListedUsers(last.list)
    /\ Stat(statsDoc, 1).no_shows = 1
    /\ Stat(statsDoc, 1).total_sessions = 1
    /\ 1 \notin SessionUsers(sessionDoc)

\* ----------------------------------------------------------------------- C34
\* C34: once nobody declares an ETA any more, with time advancing and the expiry
\* and archival rounds coming again and again, the stored session is eventually
\* cleared and get_session_status returns None from then on.
SessionEventuallyCleared ==
    <>[] (get_session_status(sessionDoc) = None)

\* the archival round has cleared a session in which ETAs had been declared and
\* folded
SessionClearedWitness ==
    /\ last.op = "archive_session_if_inactive"
    /\ last.flag
    /\ sessionDoc = None
    /\ Folded(statsDoc) > 0

\* ----------------------------------------------------------------------- C37
\* on_time_score + late_count of a user in user_data (0 without an entry)
ScoreSum(p, u) ==
    IF p.data[u] = None
    THEN 0
    ELSE p.data[u][1].on_time_score + p.data[u][1].late_count

\* C37: in the first prototype the arrival for a declared ETA is scored at most
\* once: whenever on_time_score + late_count of a user grows, it grows by one and
\* it had not grown since the user's last !eta, whatever !ready commands and
\* voice joins come in and in whatever order.
ScoredOncePerEta ==
    [][ \A u \in Users :
           ScoreSum(proto', u) > ScoreSum(proto, u)
             => /\ ScoreSum(proto', u) = ScoreSum(proto, u) + 1
                /\ proto.scored[u] = 0
                /\ proto'.scored[u] = 1 ]_vars

\* user 1 has been scored for the present ETA, and a later !ready or voice join
\* found the arrival already marked
ScoredOnceWitness ==
    /\ proto # NoProto
    /\ proto.refused = 1
    /\ proto.scored[1] = 1
    /\ ScoreSum(proto, 1) = 1

\* ----------------------------------------------------------------------- C38
\* the notifications that have gone out for the user's present ETA
SentFor(p, u) == {k \in Kinds : p.sends[u][k] > 0}

\* a notification goes out to user u in the step
NotifiedIn(u) ==
    \/ \E k \in Kinds : proto'.sends[u][k] > proto.sends[u][k]
    \/ /\ proto.loop.user = u
       /\ proto.loop.detached
       /\ \E k \in Kinds : proto'.loop.counts[k] > proto.loop.counts[k]

\* C38: each kind of notification goes out at most once for a declared ETA,
\* however the passes of check_intervals fall; the sent set of a user holds the
\* kinds that have gone out for the present ETA and no others, so that a new !eta
\* leaves it empty and every kind can go out again; and no notification goes
\* out to a user who has arrived.
NotifiedOncePerEta ==
    /\ [] (\A u \in Users, k \in Kinds :
              /\ proto.sends[u][k] <= 1
              /\ proto.loop.counts[k] <= 1)
    /\ [] (\A u \in Users :
              proto.data[u] # None
                => proto.data[u][1].notifications_sent = SentFor(proto, u))
    /\ [][ \A u \in Users :
              /\ proto'.etas > proto.etas /\ proto'.data[u] # proto.data[u]
                   => proto'.data[u][1].notifications_sent = {}
              /\ NotifiedIn(u)
                   => proto.data[u] # None /\ ~ proto.data[u][1].arrived ]_vars

\* a kind that went out for an earlier ETA of user 1 has gone out for the
\* present one too
NotifiedAgainWitness ==
    /\ proto # NoProto
    /\ \E k \in Kinds : k \in proto.prev[1] /\ proto.sends[1][k] = 1

====
